---------------------------- MODULE Spec2Model ----------------------------
(***************************************************************************)
(* Chord-type index and chord guesser of the qord music-theory library.    *)
(*                                                                         *)
(* Values.  A JavaScript string that the code parses character by          *)
(* character (note and pitch-class names, accidentals, interval            *)
(* qualities) is a sequence of one-character strings; a string that is     *)
(* only compared or used as a map key (chord names, chord symbols) is a    *)
(* TLA+ string.  A nullable value is a sequence of length at most one:     *)
(* NULL is null and Some(x) is x.  A trie node is identified by its path   *)
(* from the root (the sequence of edge keys), which stands for the         *)
(* object identity of the ChordTypeNode.  A weight is an integer number    *)
(* of thousandths.                                                         *)
(***************************************************************************)
EXTENDS Integers, Sequences, FiniteSets, TLC

NULL == <<>>

Some(x) == <<x>>

IsNull(o) == Len(o) = 0

(* JavaScript's % : the remainder takes the sign of the dividend. *)
JsRem(a, b) == IF a >= 0 THEN a % b ELSE -((-a) % b)

Abs(n) == IF n < 0 THEN -n ELSE n

Range(s) == {s[i] : i \in DOMAIN s}

(* Array.prototype.indexOf, 0-based, -1 when absent. *)
IndexOf(s, x) ==
  IF \E i \in DOMAIN s : s[i] = x
  THEN (CHOOSE i \in DOMAIN s : s[i] = x /\ \A j \in 1..(i - 1) : s[j] # x) - 1
  ELSE -1

(* Map.prototype.set: the entry for k is v, whatever it was. *)
MapSet(m, k, v) == (k :> v) @@ m

(* Map.prototype.get(k) ?? null *)
MapGet(m, k) == IF k \in DOMAIN m THEN Some(m[k]) ELSE NULL

EmptyMap == [k \in {} |-> 0]

-----------------------------------------------------------------------------
(* constants.ts *)

LETTERS == <<"C", "D", "E", "F", "G", "A", "B">>

STEP_SIZES == <<0, 2, 4, 5, 7, 9, 11>>

SHARP_PITCH_CLASSES ==
  << <<"C">>, <<"C", "#">>, <<"D">>, <<"D", "#">>, <<"E">>, <<"F">>,
     <<"F", "#">>, <<"G">>, <<"G", "#">>, <<"A">>, <<"A", "#">>, <<"B">> >>

-----------------------------------------------------------------------------
(* interval.ts: an Interval is [quality |-> <<chars>>, number |-> Int]. *)

Interval(quality, number) == [quality |-> quality, number |-> number]

IntervalOctaves(iv) == Abs(iv.number) \div 8

IntervalDirection(iv) == IF iv.number > 0 THEN 1 ELSE -1

IntervalStep(iv) == (Abs(iv.number) - 1) % 7

IntervalAlteration(iv) ==
  IF iv.quality = <<"P">> \/ iv.quality = <<"M">> THEN 0
  ELSE IF iv.quality = <<"m">> THEN -1
  ELSE IF iv.quality[1] = "A" THEN Len(iv.quality)
  ELSE IF iv.quality[1] = "d"
       THEN IF (IntervalStep(iv) + 1) \in {1, 4, 5}
            THEN -Len(iv.quality)
            ELSE -(Len(iv.quality) + 1)
  ELSE 0

IntervalSemitones(iv) ==
  IntervalDirection(iv)
    * (STEP_SIZES[IntervalStep(iv) + 1] + IntervalAlteration(iv)
       + 12 * IntervalOctaves(iv))

INTERVAL_NUMBER == <<1, 2, 2, 3, 3, 4, 5, 5, 6, 6, 7, 7>>

INTERVAL_QUALITY ==
  << <<"P">>, <<"m">>, <<"M">>, <<"m">>, <<"M">>, <<"P">>,
     <<"d">>, <<"P">>, <<"m">>, <<"M">>, <<"m">>, <<"M">> >>

IntervalFromSemitones(semitones) ==
  LET direction == IF semitones < 0 THEN -1 ELSE 1
      absSemitones == Abs(semitones)
      octaves == absSemitones \div 12
      simplified == absSemitones % 12
      quality == INTERVAL_QUALITY[simplified + 1]
      number == direction * (INTERVAL_NUMBER[simplified + 1] + 7 * octaves)
  IN  Interval(quality, number)

IntervalChroma(iv) ==
  LET rawChroma ==
        JsRem(IntervalDirection(iv)
                * (STEP_SIZES[IntervalStep(iv) + 1] + IntervalAlteration(iv)), 12)
  IN  JsRem(JsRem(rawChroma, 12) + 12, 12)

-----------------------------------------------------------------------------
(* helpers: rotate, generateRotations *)

rotate(n, arr) ==
  LET length == Len(arr)
      normalizedRotation == JsRem(JsRem(n, length) + length, length)
  IN  SubSeq(arr, normalizedRotation + 1, length) \o SubSeq(arr, 1, normalizedRotation)

generateRotations(arr) ==
  IF Len(arr) <= 2 THEN <<arr>>
  ELSE [i \in 1..Len(arr) |-> rotate(i - 1, arr)]

-----------------------------------------------------------------------------
(* pcset.ts: a PCSet is a sequence of numbers without repetition. *)

RECURSIVE Unique(_)
(* [...new Set(arr)]: the first occurrence of every value, in order. *)
Unique(arr) ==
  IF arr = <<>> THEN <<>>
  ELSE LET front == Unique(SubSeq(arr, 1, Len(arr) - 1))
           last == arr[Len(arr)]
       IN  IF last \in Range(front) THEN front ELSE Append(front, last)

PCSetCreate(arr) == Unique(arr)

RECURSIVE PCSetBinary(_)
PCSetBinary(s) ==
  IF s = <<>> THEN 0 ELSE PCSetBinary(Tail(s)) + 2 ^ Head(s)

(* get intervalVector(): for each interval class 1..6 the number of pairs *)
(* of members at that distance                                             *)
PCSetIntervalVector(s) ==
  LET diff(i, j) == (s[j] - s[i] + 12) % 12
      class(i, j) == IF diff(i, j) > 6 THEN 12 - diff(i, j) ELSE diff(i, j)
  IN  IF Len(s) < 2 THEN [d \in 1..6 |-> 0]
      ELSE [d \in 1..6 |->
              Cardinality({ij \in (DOMAIN s) \X (DOMAIN s) :
                             ij[1] < ij[2] /\ class(ij[1], ij[2]) = d})]

(* transpose that leaves out the second reduction: negative remainders *)
transposeOnce(s, n) == PCSetCreate([i \in DOMAIN s |-> JsRem(s[i] + n, 12)])

PCSetTranspose(s, n) ==
  PCSetCreate([i \in DOMAIN s |-> JsRem(JsRem(s[i] + n, 12) + 12, 12)])

(* zero() that leaves the set where it is *)
notZeroed(s) == s

(* transpose(-this[0]); on the empty set -this[0] is NaN and map has no   *)
(* element to apply it to.                                                 *)
PCSetZero(s) ==
  IF s = <<>> THEN PCSetCreate(<<>>) ELSE PCSetTranspose(s, -s[1])

PCSetInvert(s) == PCSetCreate([i \in DOMAIN s |-> JsRem(12 - s[i], 12)])

RECURSIVE toSorted(_)
(* this.toSorted((a, b) => a - b) *)
toSorted(s) ==
  IF s = <<>> THEN <<>>
  ELSE LET front == toSorted(SubSeq(s, 1, Len(s) - 1))
           last == s[Len(s)]
       IN  SelectSeq(front, LAMBDA x : x <= last) \o <<last>>
             \o SelectSeq(front, LAMBDA x : x > last)

(* mostLeftCompact that returns the first set *)
firstOfSets(sets) == IF sets = <<>> THEN PCSetCreate(<<>>) ELSE sets[1]

RECURSIVE reduceCompact(_, _)
(* sets.reduce((acc, cur) => acc.binary < cur.binary ? acc : cur, acc) *)
reduceCompact(acc, sets) ==
  IF sets = <<>> THEN acc
  ELSE reduceCompact(IF PCSetBinary(acc) < PCSetBinary(Head(sets)) THEN acc ELSE Head(sets),
                     Tail(sets))

mostLeftCompact(sets) ==
  IF Len(sets) = 0 THEN PCSetCreate(<<>>) ELSE reduceCompact(sets[1], sets)

PCSetNormal(s) ==
  LET sorted == toSorted(s)
      rotations == [i \in 1..Len(sorted) |-> PCSetZero(PCSetCreate(rotate(i - 1, sorted)))]
  IN  mostLeftCompact(rotations)

PCSetPrime(s) ==
  LET originalReduced == PCSetZero(PCSetNormal(s))
      invertedReduced == PCSetZero(PCSetNormal(PCSetInvert(s)))
  IN  mostLeftCompact(<<originalReduced, invertedReduced>>)

(* PCSet.isZRelated on two arrays of numbers *)
PCSetIsZRelated(a, b) ==
  LET pc1 == PCSetCreate(a)
      pc2 == PCSetCreate(b)
  IN  \A i \in 1..6 : PCSetIntervalVector(pc1)[i] = PCSetIntervalVector(pc2)[i]

-----------------------------------------------------------------------------
(* chord/data.ts.  Each interval token is written as parsed by            *)
(* Interval.parseName, Opt marking a token that carries the "*" suffix;   *)
(* the symbol list is symbolString.split(" ").                             *)

Man(q, n) == [quality |-> <<q>>, number |-> n, optional |-> FALSE]

Opt(q, n) == [quality |-> <<q>>, number |-> n, optional |-> TRUE]

Row(intervals, name, symbols) ==
  [intervals |-> intervals, name |-> name, symbols |-> symbols]

CHORD_TYPE_DATABASE ==
  <<
    Row(<<Man("P", 1)>>,
        "perfect unison",
        <<"P1">>),
    Row(<<Man("P", 1), Man("m", 2)>>,
        "minor second",
        <<"m2">>),
    Row(<<Man("P", 1), Man("M", 2)>>,
        "major second",
        <<"M2">>),
    Row(<<Man("P", 1), Man("m", 3)>>,
        "minor third",
        <<"m3">>),
    Row(<<Man("P", 1), Man("M", 3)>>,
        "major third",
        <<"M3">>),
    Row(<<Man("P", 1), Man("P", 4)>>,
        "perfect fourth",
        <<"P4">>),
    Row(<<Man("P", 1), Man("A", 4)>>,
        "tritone",
        <<"T">>),
    Row(<<Man("P", 1), Man("P", 5)>>,
        "perfect fifth",
        <<"P5">>),
    Row(<<Man("P", 1), Man("m", 6)>>,
        "minor sixth",
        <<"m6">>),
    Row(<<Man("P", 1), Man("M", 6)>>,
        "major sixth",
        <<"M6">>),
    Row(<<Man("P", 1), Man("m", 7)>>,
        "minor seventh",
        <<"m7">>),
    Row(<<Man("P", 1), Man("M", 7)>>,
        "major seventh",
        <<"M7">>),
    Row(<<Man("P", 1), Man("P", 8)>>,
        "octave",
        <<"P8">>),
    Row(<<Man("P", 1), Man("M", 3), Man("P", 5)>>,
        "major",
        <<"maj", "", "M">>),
    Row(<<Man("P", 1), Opt("M", 3), Opt("P", 5), Man("M", 7)>>,
        "major seventh",
        <<"maj7", "M7", "Δ7", "Δ">>),
    Row(<<Man("P", 1), Man("M", 3), Opt("P", 5), Man("M", 7), Man("M", 9)>>,
        "major ninth",
        <<"maj9", "M9", "Δ9">>),
    Row(<<Man("P", 1), Man("M", 3), Opt("P", 5), Man("M", 7), Man("M", 9), Man("M", 11)>>,
        "major eleventh",
        <<"maj11", "M11", "Δ11">>),
    Row(<<Man("P", 1), Man("M", 3), Opt("P", 5), Man("M", 7), Man("M", 9), Man("M", 11), Man("M", 13)>>,
        "major thirteenth",
        <<"maj13", "M13", "Δ13">>),
    Row(<<Man("P", 1), Man("M", 2), Man("M", 3)>>,
        "major second",
        <<"majadd2", "add2", "2", "Madd2">>),
    Row(<<Man("P", 1), Man("M", 2), Man("M", 3), Man("P", 5)>>,
        "major added ninth",
        <<"majadd9", "Madd9", "Madd9">>),
    Row(<<Man("P", 1), Man("m", 2), Man("M", 3), Man("P", 5)>>,
        "major added flat ninth",
        <<"majaddb9", "Maddb9", "Maddb9", "Maddb9", "majaddb2", "addb2", "addb2", "Maddb2">>),
    Row(<<Man("P", 1), Man("M", 3), Man("P", 4), Man("P", 5)>>,
        "major added eleventh",
        <<"majadd11", "Madd11", "add11", "Madd11", "majadd4", "add4", "add4", "Madd4">>),
    Row(<<Man("P", 1), Man("M", 3), Man("A", 4), Man("P", 5)>>,
        "major added flat fifth",
        <<"majaddb5", "Maddb5", "addb5", "Maddb5", "majadd#11", "Madd#11", "add#11">>),
    Row(<<Man("P", 1), Man("M", 3), Man("P", 5), Man("M", 6)>>,
        "major sixth",
        <<"maj6", "6", "6", "M6", "add6", "majadd13", "Madd13", "add13">>),
    Row(<<Man("P", 1), Man("M", 3), Opt("P", 5), Man("M", 6), Man("M", 9)>>,
        "major sixth ninth",
        <<"maj6/9", "6/9", "69", "6add9", "M69">>),
    Row(<<Man("P", 1), Man("M", 3), Opt("P", 5), Man("M", 6), Opt("M", 9), Man("P", 11)>>,
        "major sixth eleventh",
        <<"maj6/11", "6/11", "6/11", "maj6/13", "6/13", "6/13">>),
    Row(<<Man("P", 1), Man("M", 3), Opt("P", 5), Man("M", 6), Man("A", 11)>>,
        "major sixth added sharp eleventh",
        <<"maj6#11", "6#11", "6#11", "M6#11", "6b5", "M6b5", "6#4">>),
    Row(<<Man("P", 1), Man("M", 3), Opt("P", 5), Man("M", 6), Man("M", 9), Man("A", 11)>>,
        "sixth ninth added sharp eleventh",
        <<"maj6/9add#11", "6/9#11", "69#11">>),
    Row(<<Man("P", 1), Man("M", 3), Opt("P", 5), Man("M", 7), Man("P", 11)>>,
        "major seventh added eleventh",
        <<"maj7add11", "M711", "Δ711", "Δ11">>),
    Row(<<Man("P", 1), Man("M", 3), Opt("P", 5), Man("M", 7), Man("A", 11)>>,
        "major seventh added sharp eleventh",
        <<"maj7add#11", "M7#11", "Δ#11", "maj7add#4", "M7add#4", "Δadd#4">>),
    Row(<<Man("P", 1), Man("M", 3), Opt("P", 5), Man("M", 7), Man("M", 13)>>,
        "major seventh added thirteenth",
        <<"maj7add13", "M713", "Δ713">>),
    Row(<<Man("P", 1), Man("M", 3), Opt("P", 5), Man("M", 7), Man("m", 13)>>,
        "major seventh added flat thirteenth",
        <<"maj7addb13", "M7b13", "Δ7b13">>),
    Row(<<Man("P", 1), Man("M", 3), Opt("P", 5), Man("M", 7), Man("M", 9), Man("M", 13)>>,
        "major ninth added thirteenth",
        <<"maj9add13", "M913", "Δ9add13">>),
    Row(<<Man("P", 1), Man("M", 3), Opt("P", 5), Man("M", 7), Man("M", 9), Man("m", 13)>>,
        "major ninth added flat thirteenth",
        <<"maj9addb13", "M9b13", "Δ9addb13">>),
    Row(<<Man("P", 1), Man("M", 3), Man("d", 5)>>,
        "major diminished fifth",
        <<"majb5", "Mb5">>),
    Row(<<Man("P", 1), Man("M", 3), Man("d", 5), Man("M", 7)>>,
        "major seventh diminished fifth",
        <<"maj7b5", "M7b5", "Δ7b5", "Δb5">>),
    Row(<<Man("P", 1), Man("M", 3), Man("d", 5), Man("M", 7), Man("M", 9)>>,
        "major ninth diminished fifth",
        <<"maj9b5", "M9b5", "Δ9b5">>),
    Row(<<Man("P", 1), Man("M", 3), Opt("P", 5), Man("M", 7), Man("m", 9)>>,
        "major seventh flat ninth",
        <<"maj7b9", "M7b9", "Δ7b9">>),
    Row(<<Man("P", 1), Man("M", 3), Opt("P", 5), Man("M", 7), Man("M", 9), Man("A", 11)>>,
        "major ninth added sharp eleventh",
        <<"maj9#11", "M9#11", "Δ9#11">>),
    Row(<<Man("P", 1), Man("M", 3), Opt("P", 5), Man("M", 7), Man("A", 9), Man("A", 11)>>,
        "major seventh added sharp ninth added sharp eleventh",
        <<"maj7#9#11", "M7#9#11", "Δ7#9#11", "Δ#9#11">>),
    Row(<<Man("P", 1), Man("M", 3), Opt("P", 5), Man("M", 7), Opt("M", 9), Man("A", 11), Man("M", 13)>>,
        "major thirteenth sharp eleventh",
        <<"maj13#11", "M13#11", "Δ13#11", "maj13#4", "M13#4", "Δ13#4">>),
    Row(<<Man("P", 1), Man("m", 3), Man("P", 5)>>,
        "minor",
        <<"min", "m", "-">>),
    Row(<<Man("P", 1), Man("m", 3), Man("P", 5), Man("M", 6)>>,
        "minor sixth",
        <<"min6", "m6", "-6">>),
    Row(<<Man("P", 1), Man("m", 3), Opt("P", 5), Man("m", 7)>>,
        "minor seventh",
        <<"min7", "m7", "-7">>),
    Row(<<Man("P", 1), Man("m", 3), Opt("P", 5), Man("m", 7), Man("M", 9)>>,
        "minor ninth",
        <<"min9", "m9", "-9">>),
    Row(<<Man("P", 1), Man("m", 3), Opt("P", 5), Man("m", 7), Man("M", 9), Man("P", 11)>>,
        "minor eleventh",
        <<"min11", "m11", "-11">>),
    Row(<<Man("P", 1), Man("m", 3), Opt("P", 5), Man("m", 7), Man("M", 9), Man("P", 11), Man("M", 13)>>,
        "minor thirteenth",
        <<"min13", "m13", "-13">>),
    Row(<<Man("P", 1), Man("m", 3), Opt("P", 5), Man("M", 9)>>,
        "minor added ninth",
        <<"minadd9", "madd9", "-add9", "minadd2", "madd2", "-add2">>),
    Row(<<Man("P", 1), Man("m", 3), Opt("P", 5), Man("M", 6), Man("M", 9)>>,
        "minor sixth ninth",
        <<"min6/9", "m6/9", "-6/9", "min69", "m69", "-69">>),
    Row(<<Man("P", 1), Man("m", 3), Man("P", 4), Man("P", 5)>>,
        "minor added fourth",
        <<"minadd4", "madd4", "-add4", "minadd11", "madd11", "-add11", "sus4addb3">>),
    Row(<<Man("P", 1), Man("m", 3), Opt("P", 5), Man("m", 7), Man("P", 11)>>,
        "minor seventh added eleventh",
        <<"min7add11", "m711", "-711", "min7add4", "m7add4", "-7add4">>),
    Row(<<Man("P", 1), Man("m", 3), Opt("P", 5), Man("m", 7), Man("M", 9), Man("M", 13)>>,
        "minor ninth added thirteenth",
        <<"min9add13", "m913", "-913">>),
    Row(<<Man("P", 1), Man("m", 3), Man("A", 5), Man("m", 7)>>,
        "minor seventh augmented fifth",
        <<"min7#5", "m7#5", "-7#5">>),
    Row(<<Man("P", 1), Man("m", 3), Man("A", 5), Man("m", 7), Man("M", 9)>>,
        "minor ninth augmented fifth",
        <<"min9#5", "m9#5", "-9#5">>),
    Row(<<Man("P", 1), Man("m", 3), Man("A", 5), Man("m", 7), Opt("M", 9), Man("P", 11)>>,
        "minor eleventh augmented fifth",
        <<"min11#5", "m11#5", "-11#5">>),
    Row(<<Man("P", 1), Man("m", 3), Man("A", 5), Man("m", 7), Opt("M", 9), Opt("P", 11), Man("M", 13)>>,
        "minor thirteenth augmented fifth",
        <<"min13#5", "m13#5", "-13#5">>),
    Row(<<Man("P", 1), Man("m", 3), Opt("P", 5), Man("m", 7), Man("m", 9)>>,
        "minor seventh flat ninth",
        <<"min7b9", "m7b9", "-7b9", "minb9", "mb9", "-b9">>),
    Row(<<Man("P", 1), Man("m", 3), Opt("P", 5), Man("m", 7), Man("A", 11)>>,
        "minor seventh sharp eleventh",
        <<"min7#11", "m7#11", "-7#11">>),
    Row(<<Man("P", 1), Man("m", 3), Opt("P", 5), Man("M", 7)>>,
        "minor/major seventh",
        <<"minmaj7", "mM7", "-Δ7", "-Δ", "-M7", "mΔ", "mΔ7", "mMaj7", "m/ma7", "m/maj7", "m/M7">>),
    Row(<<Man("P", 1), Man("m", 3), Opt("P", 5), Man("M", 7), Man("M", 9)>>,
        "minor/major ninth",
        <<"minmaj9", "mM9", "-Δ9", "-M9", "mΔ9", "mMaj9", "m/ma9", "m/maj9", "m/M9">>),
    Row(<<Man("P", 1), Man("m", 3), Opt("P", 5), Man("M", 7), Man("M", 9), Man("P", 11)>>,
        "minor/major eleventh",
        <<"minmaj11", "mM11", "-Δ11", "-M11", "mΔ11", "mMaj11", "m/ma11", "m/maj11", "m/M11">>),
    Row(<<Man("P", 1), Man("m", 3), Opt("P", 5), Man("M", 7), Man("M", 9), Man("P", 11), Man("M", 13)>>,
        "minor/major thirteenth",
        <<"minmaj13", "mM13", "-Δ13", "-M13", "mΔ13", "mMaj13", "m/ma13", "m/maj13", "m/M13">>),
    Row(<<Man("P", 1), Man("m", 3), Man("A", 5), Man("M", 7)>>,
        "minor/major seventh augmented fifth",
        <<"minmaj7#5", "mM7#5", "-Δ7#5">>),
    Row(<<Man("P", 1), Man("m", 3), Opt("P", 5), Man("M", 7), Man("m", 13)>>,
        "minor/major seventh added flat thirteenth",
        <<"minmaj7addb13", "mM7b13", "-Δ7b13", "minmaj7addb6", "mM7addb6", "-Δ7addb6">>),
    Row(<<Man("P", 1), Man("m", 3), Opt("P", 5), Man("M", 7), Man("M", 9), Man("m", 13)>>,
        "minor/major ninth added flat thirteenth",
        <<"minmaj9addb13", "mM9b13", "-Δ9b13", "minmaj9addb6", "mM9addb6", "-Δ9addb6">>),
    Row(<<Man("P", 1), Man("m", 3), Opt("P", 5), Man("M", 7), Opt("M", 9), Man("P", 11), Man("m", 13)>>,
        "minor/major eleventh added flat thirteenth",
        <<"minmaj11b13", "mM11b13", "-Δ11b13", "minmaj11addb6", "mM11addb6", "-Δ11addb6">>),
    Row(<<Man("P", 1), Man("m", 3), Man("d", 5)>>,
        "diminished",
        <<"dim", "dim", "o", "°">>),
    Row(<<Man("P", 1), Man("m", 3), Man("d", 5), Man("d", 7)>>,
        "diminished seventh",
        <<"dim7", "dim7", "o7", "°7">>),
    Row(<<Man("P", 1), Man("m", 3), Man("d", 5), Man("M", 7)>>,
        "diminished major seventh",
        <<"dimmaj7", "dimM7", "oM7", "minmaj7b5", "mM7b5">>),
    Row(<<Man("P", 1), Man("m", 3), Man("d", 5), Man("d", 7), Man("M", 7)>>,
        "diminished seventh major seventh",
        <<"dim7maj7", "dim7M7", "o7M7", "°7M7">>),
    Row(<<Man("P", 1), Man("m", 3), Man("d", 5), Man("m", 7)>>,
        "half-diminished",
        <<"min7b5", "m7b5", "ø", "ø7", "-7b5", "-7o5", "min7dim5">>),
    Row(<<Man("P", 1), Man("m", 3), Man("d", 5), Man("m", 7), Man("M", 9)>>,
        "half-diminished ninth",
        <<"min9b5", "m9b5", "ø9", "-9b5", "-9o5", "min9dim5">>),
    Row(<<Man("P", 1), Man("m", 3), Man("d", 5), Man("m", 7), Man("m", 9)>>,
        "half-diminished flat ninth",
        <<"min7b5b9", "m7b5b9", "øb9", "-b9b5", "-b9o5", "minb9dim5">>),
    Row(<<Man("P", 1), Man("m", 3), Man("d", 5), Man("m", 7), Opt("M", 9), Man("P", 11)>>,
        "half-diminished eleventh",
        <<"min11b5", "m11b5", "ø11", "-11b5", "-11o5", "min11dim5">>),
    Row(<<Man("P", 1), Opt("M", 3), Opt("P", 5), Man("m", 7)>>,
        "dominant seventh",
        <<"dom7", "7", "7", "dom">>),
    Row(<<Man("P", 1), Man("M", 3), Opt("P", 5), Man("m", 7), Man("M", 9)>>,
        "dominant ninth",
        <<"dom9", "9", "9">>),
    Row(<<Man("P", 1), Man("M", 3), Opt("P", 5), Man("m", 7), Opt("M", 9), Man("P", 11)>>,
        "dominant eleventh",
        <<"dom11", "11", "11">>),
    Row(<<Man("P", 1), Man("M", 3), Opt("P", 5), Man("m", 7), Opt("M", 9), Opt("P", 11), Man("M", 13)>>,
        "dominant thirteenth",
        <<"dom13", "13", "13">>),
    Row(<<Man("P", 1), Man("M", 3), Man("d", 5), Man("m", 7)>>,
        "dominant seventh flat fifth",
        <<"dom7b5", "7b5">>),
    Row(<<Man("P", 1), Man("M", 3), Man("d", 5), Man("m", 7), Man("M", 9)>>,
        "dominant ninth flat fifth",
        <<"dom9b5", "9b5">>),
    Row(<<Man("P", 1), Man("M", 3), Opt("P", 5), Man("m", 7), Man("P", 11)>>,
        "dominant seventh added eleventh",
        <<"dom7add11", "711", "711", "dom7add4", "7add4">>),
    Row(<<Man("P", 1), Man("M", 3), Opt("P", 5), Man("m", 7), Man("A", 11)>>,
        "dominant seventh sharp eleventh",
        <<"dom7add#11", "7#11", "7#11", "dom7add#4", "7add#4", "7#4">>),
    Row(<<Man("P", 1), Man("M", 3), Opt("P", 5), Man("m", 7), Man("m", 13)>>,
        "dominant seventh added flat thirteenth",
        <<"dom7addb13", "7b13", "7b13", "dom7addb6", "7addb6", "7b6">>),
    Row(<<Man("P", 1), Man("M", 3), Opt("P", 5), Man("m", 7), Man("M", 9), Man("A", 11)>>,
        "dominant ninth added sharp eleventh",
        <<"dom9#11", "9#11", "9#11", "dom9#4", "9#4">>),
    Row(<<Man("P", 1), Man("M", 3), Opt("P", 5), Man("m", 7), Man("M", 9), Man("m", 13)>>,
        "dominant ninth added flat thirteenth ",
        <<"dom9addb13", "9b13", "9b13", "dom9addb6", "9addb6", "9b6">>),
    Row(<<Man("P", 1), Man("M", 3), Opt("P", 5), Man("m", 7), Man("m", 9)>>,
        "dominant flat ninth",
        <<"dom7b9", "7b9">>),
    Row(<<Man("P", 1), Man("M", 3), Opt("P", 5), Man("m", 7), Man("A", 9)>>,
        "dominant sharp ninth",
        <<"dom7#9", "7#9">>),
    Row(<<Man("P", 1), Man("M", 3), Opt("P", 5), Man("m", 7), Man("m", 9), Man("A", 9)>>,
        "dominant flat ninth added sharp ninth ",
        <<"dom7b9#9", "7b9#9", "7b9#9", "dom7b9add#9">>),
    Row(<<Man("P", 1), Man("M", 3), Opt("P", 5), Man("m", 7), Man("m", 9), Man("A", 11)>>,
        "dominant flat ninth sharp eleventh",
        <<"dom7b9#11", "7b9#11", "7b9#11", "7b5b9", "7b9b5">>),
    Row(<<Man("P", 1), Man("M", 3), Opt("P", 5), Man("m", 7), Man("m", 9), Man("m", 13)>>,
        "dominant flat ninth added flat thirteenth",
        <<"dom7b9b13", "7b9b13">>),
    Row(<<Man("P", 1), Man("M", 3), Opt("P", 5), Man("m", 7), Man("m", 9), Man("A", 11), Man("m", 13)>>,
        "dominant flat ninth sharp eleventh flat thirteenth",
        <<"dom7b9#11b13", "7b9#11b13", "7#11b9b13", "dom7#11b9b13", "7b5b9b13">>),
    Row(<<Man("P", 1), Man("M", 3), Opt("P", 5), Man("m", 7), Man("A", 9), Man("A", 11)>>,
        "dominant sharp ninth sharp eleventh",
        <<"dom7#9#11", "7#9#11", "7b5#9", "7#9b5", "dom7#9addb5">>),
    Row(<<Man("P", 1), Man("M", 3), Opt("P", 5), Man("m", 7), Man("A", 9), Man("m", 13)>>,
        "dominant sharp ninth flat thirteenth",
        <<"dom7#9b13", "7#9b13">>),
    Row(<<Man("P", 1), Man("M", 3), Opt("P", 5), Man("m", 7), Man("A", 11), Man("m", 13)>>,
        "dominant seventh sharp eleventh flat thirteenth",
        <<"dom7#11b13", "7#11b13", "7#11b13", "7b5b13">>),
    Row(<<Man("P", 1), Man("M", 3), Opt("P", 5), Man("m", 7), Man("M", 9), Man("A", 11), Man("m", 13)>>,
        "dominant ninth sharp eleventh flat thirteenth",
        <<"dom9#11b13", "9#11b13", "9#11b13", "dom9add#11addb13", "9b5b13">>),
    Row(<<Man("P", 1), Man("M", 3), Opt("P", 5), Man("m", 7), Man("m", 9), Opt("P", 11), Man("M", 13)>>,
        "dominant thirteenth flat ninth",
        <<"dom13b9", "13b9">>),
    Row(<<Man("P", 1), Man("M", 3), Opt("P", 5), Man("m", 7), Man("A", 9), Opt("P", 11), Man("M", 13)>>,
        "dominant thirteenth sharp ninth",
        <<"dom13#9", "13#9">>),
    Row(<<Man("P", 1), Man("M", 3), Opt("P", 5), Man("m", 7), Man("M", 9), Man("A", 11), Man("M", 13)>>,
        "dominant thirteenth sharp eleventh",
        <<"dom13#11", "13#11", "13#11", "13#4">>),
    Row(<<Man("P", 1), Man("M", 3), Opt("P", 5), Man("m", 7), Man("m", 9), Man("A", 11), Man("M", 13)>>,
        "dominant thirteenth flat ninth sharp eleventh",
        <<"dom13b9#11", "13b9#11">>),
    Row(<<Man("P", 1), Man("M", 3), Opt("P", 5), Man("m", 7), Man("A", 9), Man("A", 11), Man("M", 13)>>,
        "dominant thirteenth sharp ninth sharp eleventh",
        <<"dom13#9#11", "13#9#11">>),
    Row(<<Man("P", 1), Man("P", 4), Man("P", 5)>>,
        "suspended fourth",
        <<"sus4", "sus4", "sus4", "sus">>),
    Row(<<Man("P", 1), Man("M", 2), Man("P", 5)>>,
        "suspended second",
        <<"sus2", "sus2", "sus2">>),
    Row(<<Man("P", 1), Man("M", 2), Man("P", 4), Man("P", 5)>>,
        "suspended second suspended fourth",
        <<"sus2sus4", "sus24", "sus24", "sus4add9">>),
    Row(<<Man("P", 1), Man("M", 2), Opt("P", 5), Man("M", 7)>>,
        "major seventh suspended second",
        <<"maj7sus2", "M7sus2", "Δ7sus2", "maj9sus2", "M9sus2", "Δ9sus2">>),
    Row(<<Man("P", 1), Man("P", 4), Opt("P", 5), Man("M", 7)>>,
        "major seventh suspended fourth",
        <<"maj7sus4", "M7sus4", "Δsus4", "sus7", "Δ7sus4", "sus4add7">>),
    Row(<<Man("P", 1), Man("M", 2), Opt("P", 5), Man("M", 7), Man("P", 11)>>,
        "major ninth suspended fourth",
        <<"maj9sus4", "M9sus4", "Δ9sus4", "maj11sus2", "M11sus2", "Δ11sus2">>),
    Row(<<Man("P", 1), Man("M", 2), Opt("P", 5), Man("m", 7)>>,
        "dominant seventh suspended second",
        <<"dom7sus2", "7sus2", "7sus2", "sus2dom7">>),
    Row(<<Man("P", 1), Man("P", 4), Opt("P", 5), Man("m", 7)>>,
        "dominant seventh suspended fourth",
        <<"dom7sus4", "7sus4", "7sus4", "7sus", "sus4dom7">>),
    Row(<<Man("P", 1), Man("P", 4), Opt("P", 5), Man("m", 7), Man("M", 9)>>,
        "dominant ninth suspended fourth",
        <<"dom9sus4", "9sus4", "9sus4", "9sus">>),
    Row(<<Man("P", 1), Man("P", 4), Opt("P", 5), Man("m", 7), Man("m", 9)>>,
        "dominant seventh suspended fourth flat ninth",
        <<"dom7sus4b9", "7sus4b9", "7sus4b9", "7susb9", "7b9sus4", "7b9sus">>),
    Row(<<Man("P", 1), Man("P", 4), Opt("P", 5), Man("m", 7), Man("m", 9), Man("m", 13)>>,
        "dominant seventh suspended fourth flat ninth added flat thirteenth",
        <<"dom7sus4b9b13", "7sus4b9b13", "7sus4b9b13", "7b9b13sus4">>),
    Row(<<Man("P", 1), Man("M", 3), Opt("P", 5), Man("m", 7), Man("A", 9), Man("A", 11), Man("m", 13)>>,
        "dominant seventh added sharp ninth sharp eleventh flat thirteenth",
        <<"dom7#9#11b13", "7#9#11b13">>),
    Row(<<Man("P", 1), Man("P", 4), Opt("P", 5), Man("m", 7), Man("M", 9), Man("M", 13)>>,
        "dominant thirteenth suspended fourth",
        <<"dom13sus4", "13sus4", "13sus", "sus4dom13">>),
    Row(<<Man("P", 1), Man("M", 3), Man("A", 5)>>,
        "augmented",
        <<"aug", "aug", "+", "+5", "M#5">>),
    Row(<<Man("P", 1), Man("M", 3), Man("A", 5), Man("m", 7)>>,
        "augmented dominant seventh",
        <<"aug7", "aug7", "+7", "7+", "7aug", "7#5">>),
    Row(<<Man("P", 1), Man("M", 3), Man("A", 5), Man("M", 7)>>,
        "augmented major seventh",
        <<"augmaj7", "augM7", "+Δ7", "maj7#5", "M7#5", "M7+5", "+M7">>),
    Row(<<Man("P", 1), Man("M", 3), Man("A", 5), Man("M", 7), Man("M", 9)>>,
        "augmented major ninth",
        <<"augmaj9", "augM9", "+Δ9", "maj9#5", "M9#5">>)
  >>

-----------------------------------------------------------------------------
(* chord.ts: generateCombinations *)

SetAdd(prefix, x) == IF x \in Range(prefix) THEN prefix ELSE Append(prefix, x)

RECURSIVE generate(_, _, _, _)
(* prefix is the Set of chosen optional tokens, in insertion order; i is  *)
(* the 0-based index of the next optional token.                           *)
generate(mandatory, optional, prefix, i) ==
  IF i = Len(optional)
  THEN << [omit |-> SelectSeq(optional, LAMBDA x : x \notin Range(prefix)),
           intervals |-> mandatory \o prefix] >>
  ELSE generate(mandatory, optional, prefix, i + 1)
         \o generate(mandatory, optional, SetAdd(prefix, optional[i + 1]), i + 1)

generateCombinations(arr) ==
  LET mandatory == SelectSeq(arr, LAMBDA t : ~t.optional)
      optional == SelectSeq(arr, LAMBDA t : t.optional)
      strip(s) == [k \in DOMAIN s |-> Interval(s[k].quality, s[k].number)]
  IN  generate(strip(mandatory), strip(optional), <<>>, 0)

-----------------------------------------------------------------------------
(* chord.ts: ChordTypeNode, ChordTypeTree, buildTree *)

ChordTypeNode(intervals, name, symbols, intervalToNext, omission) ==
  [intervals |-> intervals,
   name |-> name,
   symbols |-> symbols,
   intervalToNext |-> intervalToNext,
   children |-> <<>>,
   omission |-> omission]

RootPath == <<>>

ChordTypeTree(rootNode) ==
  [nodes |-> (RootPath :> rootNode),
   intervalMap |-> EmptyMap,
   nameMap |-> EmptyMap,
   symbolMap |-> EmptyMap,
   binaryMap |-> EmptyMap]

(* ChordType.pcset: PCSet.from(intervals.map(i => i.chroma)) *)
TypePcset(intervals) ==
  PCSetCreate([k \in DOMAIN intervals |-> IntervalChroma(intervals[k])])

(* ChordTypeNode.binary *)
NodeBinary(node) == PCSetBinary(TypePcset(node.intervals))

RECURSIVE Join(_)
(* numbers.join(",") *)
Join(numbers) ==
  IF numbers = <<>> THEN ""
  ELSE IF Len(numbers) = 1 THEN ToString(numbers[1])
  ELSE Join(SubSeq(numbers, 1, Len(numbers) - 1)) \o "," \o ToString(numbers[Len(numbers)])

(* intervals left in the order of the row *)
keepOrder(s) == s

RECURSIVE InsertSorted(_, _)
InsertSorted(sorted, iv) ==
  IF sorted = <<>> THEN <<iv>>
  ELSE IF IntervalSemitones(sorted[Len(sorted)]) <= IntervalSemitones(iv)
       THEN Append(sorted, iv)
       ELSE Append(InsertSorted(SubSeq(sorted, 1, Len(sorted) - 1), iv),
                   sorted[Len(sorted)])

RECURSIVE SortBySemitones(_)
(* .sort((a, b) => a.semitones - b.semitones), a stable sort *)
SortBySemitones(s) ==
  IF s = <<>> THEN <<>>
  ELSE InsertSorted(SortBySemitones(SubSeq(s, 1, Len(s) - 1)), s[Len(s)])

(* ChordTypeNode.addChild on the node at path parent *)
addChild(t, parent, key, node) ==
  [t EXCEPT !.nodes =
     MapSet([@ EXCEPT ![parent].children = Append(@, key)],
            Append(parent, key), node)]

(* the registrations of a new terminal node in the four maps *)
registerNode(t, path, node, name, symbols) ==
  [t EXCEPT
     !.intervalMap =
        MapSet(@, Join([k \in DOMAIN node.intervals |->
                          IntervalSemitones(node.intervals[k])]),
               path),
     !.nameMap = MapSet(@, name, path),
     !.binaryMap = MapSet(@, NodeBinary(node), path),
     !.symbolMap = [s \in Range(symbols) |-> path] @@ @]

RECURSIVE walkIntervals(_, _, _, _, _, _, _)
(* the loop over sortedIntervals, i 0-based, currentNode the node at path *)
walkIntervals(t, currentNode, i, sortedIntervals, sortedOmissions, name, symbols) ==
  IF i >= Len(sortedIntervals) THEN t
  ELSE
    LET interval == sortedIntervals[i + 1]
        isLast == i = Len(sortedIntervals) - 1
        intervalToNext == IntervalSemitones(interval)
        childPath == Append(currentNode, intervalToNext)
    IN  IF intervalToNext \in Range(t.nodes[currentNode].children)
        THEN walkIntervals(t, childPath, i + 1, sortedIntervals, sortedOmissions,
                           name, symbols)
        ELSE
          LET childNode ==
                IF isLast
                THEN ChordTypeNode(sortedIntervals, Some(name), symbols,
                                   intervalToNext, sortedOmissions)
                ELSE ChordTypeNode(SubSeq(sortedIntervals, 1, i + 1), NULL, <<>>,
                                   intervalToNext, NULL)
              registered ==
                IF isLast THEN registerNode(t, childPath, childNode, name, symbols)
                ELSE t
          IN  walkIntervals(addChild(registered, currentNode, intervalToNext, childNode),
                            childPath, i + 1, sortedIntervals, sortedOmissions,
                            name, symbols)

(* the body of the loop over the combinations of one row *)
addCombination(t, combination, name, symbols) ==
  LET sortedIntervals == SortBySemitones(combination.intervals)
      sortedOmissions ==
        IF Len(combination.omit) > 0
        THEN Some(SortBySemitones(combination.omit))
        ELSE NULL
  IN  walkIntervals(t, RootPath, 0, sortedIntervals, sortedOmissions, name, symbols)

(* TLC evaluates an operator argument only when it is first used; a tree *)
(* is tested with IsTree before it is passed on, so that it is computed    *)
(* at that point.                                                          *)
IsTree(t) == RootPath \in DOMAIN t.nodes

RECURSIVE addCombinations(_, _, _, _, _)
(* the loop over the combinations of one row, from combinations[k] on *)
addCombinations(t, combinations, k, name, symbols) ==
  IF k > Len(combinations) THEN t
  ELSE LET added == addCombination(t, combinations[k], name, symbols)
       IN  IF IsTree(added)
           THEN addCombinations(added, combinations, k + 1, name, symbols)
           ELSE added

(* the body of the loop over the rows of the database *)
addRow(t, row) ==
  addCombinations(t, generateCombinations(row.intervals), 1, row.name, row.symbols)

RECURSIVE addRows(_, _, _, _)
(* the loop over the rows lo..hi of data, in order (the range is halved   *)
(* to keep the evaluation shallow)                                         *)
addRows(t, data, lo, hi) ==
  IF lo > hi THEN t
  ELSE IF lo = hi THEN addRow(t, data[lo])
  ELSE LET mid == (lo + hi) \div 2
           left == addRows(t, data, lo, mid)
       IN  IF IsTree(left) THEN addRows(left, data, mid + 1, hi) ELSE left

buildTree(data) ==
  addRows(ChordTypeTree(ChordTypeNode(<<>>, Some("root"), <<>>, 0, NULL)),
          data, 1, Len(data))

(* the index that useTree builds: buildTree(CHORD_TYPE_DATABASE) *)
DatabaseTree == buildTree(CHORD_TYPE_DATABASE)

-----------------------------------------------------------------------------
(* The result of a call that may throw: Ok(v) is a normal return of v,    *)
(* Throw(e) is an exception whose message starts with e.                   *)

Ok(v) == [ok |-> TRUE, value |-> v]

Throw(e) == [ok |-> FALSE, error |-> e]

-----------------------------------------------------------------------------
(* pitch-class.ts: a PitchClass is [letter, accidental], the accidental a *)
(* nullable sequence of characters.                                        *)

IsDigit(c) == c \in {"0", "1", "2", "3", "4", "5", "6", "7", "8", "9"}

(* Number.parseInt of one digit *)
DigitValue(c) ==
  CASE c = "0" -> 0 [] c = "1" -> 1 [] c = "2" -> 2 [] c = "3" -> 3 [] c = "4" -> 4
    [] c = "5" -> 5 [] c = "6" -> 6 [] c = "7" -> 7 [] c = "8" -> 8 [] c = "9" -> 9

toUpperCase(c) ==
  CASE c = "a" -> "A" [] c = "b" -> "B" [] c = "c" -> "C" [] c = "d" -> "D"
    [] c = "e" -> "E" [] c = "f" -> "F" [] c = "g" -> "G" [] OTHER -> c

(* String.prototype.replace("x", "##"): the first "x" only *)
ReplaceFirstX(s) ==
  IF "x" \in Range(s)
  THEN LET k == IndexOf(s, "x") + 1
       IN  SubSeq(s, 1, k - 1) \o <<"#", "#">> \o SubSeq(s, k + 1, Len(s))
  ELSE s

(* the PitchClass constructor *)
PitchClass(letter, accidental) ==
  [letter |-> toUpperCase(letter),
   accidental |-> IF IsNull(accidental) THEN NULL
                  ELSE Some(ReplaceFirstX(accidental[1]))]

PitchClassStep(p) == IndexOf(LETTERS, p.letter)

PitchClassAlteration(p) ==
  IF IsNull(p.accidental) \/ p.accidental[1] = <<"n">> THEN 0
  ELSE LET sign == IF p.accidental[1][1] = "#" THEN 1 ELSE -1
       IN  Len(p.accidental[1]) * sign

PitchClassChroma(p) ==
  JsRem(STEP_SIZES[PitchClassStep(p) + 1] + PitchClassAlteration(p) + 12, 12)

(* PITCH_CLASS_REGEX = /^([A-Ga-g])(#+|b+|x+|n)?$/ *)
PITCH_CLASS_REGEX(name) ==
  /\ Len(name) >= 1
  /\ name[1] \in {"A", "B", "C", "D", "E", "F", "G", "a", "b", "c", "d", "e", "f", "g"}
  /\ LET rest == Tail(name)
     IN  \/ rest = <<>>
         \/ \A k \in DOMAIN rest : rest[k] = "#"
         \/ \A k \in DOMAIN rest : rest[k] = "b"
         \/ \A k \in DOMAIN rest : rest[k] = "x"
         \/ rest = <<"n">>

(* PitchClass.parseName: [letter, accidental ?? null] *)
parseName(name) ==
  IF ~PITCH_CLASS_REGEX(name) THEN Throw("Invalid pitch class name")
  ELSE Ok([letter |-> name[1],
           accidental |-> IF Len(name) = 1 THEN NULL ELSE Some(Tail(name))])

PitchClassFromName(name) ==
  LET parsed == parseName(name)
  IN  IF parsed.ok
      THEN Ok(PitchClass(parsed.value.letter, parsed.value.accidental))
      ELSE parsed

isValidChroma(chroma) == chroma >= 0 /\ chroma < 12

PitchClassFromChroma(chroma) ==
  IF ~isValidChroma(chroma) THEN Throw("Invalid chroma")
  ELSE PitchClassFromName(SHARP_PITCH_CLASSES[chroma + 1])

-----------------------------------------------------------------------------
(* note.ts: a Note is a PitchClass with an octave field. *)

isValidMidiNumber(midiNumber) == midiNumber >= 0 /\ midiNumber <= 127

isValidOctave(octave) == octave >= 0 /\ octave <= 9

(* the Note constructor *)
Note(letter, accidental, octave) ==
  [letter |-> PitchClass(letter, accidental).letter,
   accidental |-> PitchClass(letter, accidental).accidental,
   octave |-> octave]

NoteFromMidi(midiNumber) ==
  IF ~isValidMidiNumber(midiNumber) THEN Throw("Invalid MIDI number")
  ELSE LET chroma == midiNumber % 12
           octave == (midiNumber \div 12) - 1
           pc == PitchClassFromChroma(chroma)
       IN  IF pc.ok THEN Ok(Note(pc.value.letter, pc.value.accidental, octave))
           ELSE pc

(* Note.createNote; a letter and an accidental that come from parseName   *)
(* satisfy isValidLetter and isValidAccidental.                            *)
createNote(letter, accidental, octave) ==
  IF ~isValidOctave(octave) THEN Throw("Invalid note octave")
  ELSE Ok(Note(letter, accidental, octave))

(* Note.fromName on a name that holds a digit: the first digit is the     *)
(* octave and its first occurrence is removed from the name.  On a name   *)
(* without a digit the result is a PitchClass, which has no octave field.  *)
NoteFromName(name) ==
  IF ~\E k \in DOMAIN name : IsDigit(name[k]) THEN PitchClassFromName(name)
  ELSE LET at == CHOOSE k \in DOMAIN name :
                   IsDigit(name[k]) /\ \A j \in 1..(k - 1) : ~IsDigit(name[j])
           octave == DigitValue(name[at])
           pcName == SubSeq(name, 1, at - 1) \o SubSeq(name, at + 1, Len(name))
           parsed == parseName(pcName)
       IN  IF ~isValidOctave(octave) THEN Throw("Invalid note octave in name")
           ELSE IF ~parsed.ok THEN parsed
           ELSE createNote(parsed.value.letter, parsed.value.accidental, octave)

(* A value of type Note | string | number is a record that names its     *)
(* type: a Note instance, a string or a number.                            *)
Str(string) == [type |-> "string", string |-> string]

Num(number) == [type |-> "number", number |-> number]

NoteInstance(letter, accidental, octave) ==
  [type |-> "Note", note |-> Note(letter, accidental, octave)]

(* Note.from(arg) with one argument *)
NoteFrom(arg) ==
  CASE arg.type = "Note" -> Ok(arg.note)
    [] arg.type = "string" -> NoteFromName(arg.string)
    [] arg.type = "number" -> NoteFromMidi(arg.number)

(* value instanceof Note *)
IsNote(v) == "octave" \in DOMAIN v

-----------------------------------------------------------------------------
(* chord.ts: the queries of ChordTypeTree.  A key is [type, value] with   *)
(* Str(string) or Num(number); a node is returned as its path.            *)

(* String(key) *)
String(key) == IF key.type = "number" THEN ToString(key.number) ELSE key.string

findBySymbol(t, symbol) == MapGet(t.symbolMap, symbol)

(* a lookup by binary that never finds *)
findNothing(t, binary) == NULL

findByBinary(t, binary) == MapGet(t.binaryMap, binary)

findByName(t, name) == MapGet(t.nameMap, name)

findByIntervals(t, intervalString, allowOmissions) ==
  LET chord == MapGet(t.intervalMap, intervalString)
  IN  IF ~IsNull(chord) /\ (allowOmissions \/ IsNull(t.nodes[chord[1]].omission))
      THEN chord
      ELSE NULL

(* a ?? b *)
Coalesce(a, b) == IF IsNull(a) THEN b ELSE a

(* find with the test of the flag on every lookup *)
findFiltering(t, key, allowOmissions) ==
  LET chord ==
        Coalesce(MapGet(t.intervalMap, String(key)),
                 IF key.type = "string"
                 THEN Coalesce(findBySymbol(t, key.string), findByName(t, key.string))
                 ELSE findByBinary(t, key.number))
  IN  IF ~IsNull(chord) /\ (allowOmissions \/ IsNull(t.nodes[chord[1]].omission))
      THEN chord
      ELSE NULL

find(t, key, allowOmissions) ==
  LET byIntervals == findByIntervals(t, String(key), allowOmissions)
  IN  IF ~IsNull(byIntervals) THEN byIntervals
      ELSE IF key.type = "string"
           THEN Coalesce(findBySymbol(t, key.string), findByName(t, key.string))
      ELSE IF key.type = "number" THEN findByBinary(t, key.number)
      ELSE NULL

RECURSIVE Flatten(_)
(* the arrays of ss one after the other (ss is halved to keep the         *)
(* evaluation shallow)                                                     *)
Flatten(ss) ==
  IF ss = <<>> THEN <<>>
  ELSE IF Len(ss) = 1 THEN ss[1]
  ELSE Flatten(SubSeq(ss, 1, Len(ss) \div 2))
         \o Flatten(SubSeq(ss, Len(ss) \div 2 + 1, Len(ss)))

(* the test that search applies to the node at path *)
searchMatches(t, path, key) ==
  LET node == t.nodes[path]
  IN  \/ key.type = "string" /\ node.name = Some(key.string)
      \/ key.type = "number" /\ NodeBinary(node) = key.number
      \/ String(key) \in Range(node.symbols)

RECURSIVE searchFrom(_, _, _)
(* The queue of search holds the nodes of one depth, then those of the    *)
(* next, each in insertion order: level is the part of the queue at one   *)
(* depth.                                                                  *)
searchFrom(t, level, key) ==
  IF level = <<>> THEN <<>>
  ELSE SelectSeq(level, LAMBDA path : searchMatches(t, path, key))
         \o searchFrom(t,
                       Flatten([k \in DOMAIN level |->
                                  [c \in DOMAIN t.nodes[level[k]].children |->
                                     Append(level[k], t.nodes[level[k]].children[c])]]),
                       key)

search(t, key) == searchFrom(t, <<RootPath>>, key)

(* useTree without the test of the module variable: every call builds *)
useTreeAlways(m) == [tree |-> Some(DatabaseTree), builds |-> m.builds + 1]

(* useTree that returns an empty index from the call that builds it *)
useTreeLate(m) ==
  IF m.builds = 0
  THEN [tree |-> Some(buildTree(<<>>)), builds |-> 1]
  ELSE [tree |-> Some(DatabaseTree), builds |-> 1]

(* The module variable tree and the number of runs of buildTree so far   *)
(* are threaded through the calls as m = [tree, builds].  useTree returns  *)
(* m.tree[1] of the m it leaves.                                           *)
useTree(m) ==
  IF IsNull(m.tree)
  THEN [tree |-> Some(DatabaseTree), builds |-> m.builds + 1]
  ELSE m

(* ChordType.find, ChordType.search and ChordType.tree: the module state  *)
(* they leave and the value they return                                    *)
ChordTypeFind(m, key, allowOmissions) ==
  LET used == useTree(m)
  IN  [mod |-> used, out |-> Ok(find(used.tree[1], key, allowOmissions))]

(* ChordType.search that takes the children of the root out of the tree *)
searchShifting(m, key) ==
  LET used == useTree(m)
  IN  [mod |-> [used EXCEPT !.tree =
                  Some([used.tree[1] EXCEPT !.nodes[RootPath].children = <<>>])],
       out |-> Ok(search(used.tree[1], key))]

ChordTypeSearch(m, key) ==
  LET used == useTree(m)
  IN  [mod |-> used, out |-> Ok(search(used.tree[1], key))]

ChordTypeTreeCall(m) ==
  LET used == useTree(m)
  IN  [mod |-> used, out |-> Ok(used.builds)]

-----------------------------------------------------------------------------
(* chord.ts: Chord.  A Chord is [root, type, bass] with root and bass     *)
(* PitchClasses and type the path of a ChordTypeNode.                      *)

(* Weights are in thousandths: ONE is the weight 1. *)
ONE == 1000

DETECT_INVERSION_SCORE == 500

DETECT_OMISSION_SCORE == 750

(* the Chord constructor without its third argument *)
chordOnRoot(root, type, bass) == [root |-> root, type |-> type, bass |-> root]

Chord(root, type, bass) ==
  [root |-> root, type |-> type, bass |-> IF IsNull(bass) THEN root ELSE bass[1]]

(* get bass(): null if same as root *)
ChordBass(chord) ==
  IF PitchClassChroma(chord.bass) = PitchClassChroma(chord.root)
  THEN NULL
  ELSE Some(chord.bass)

(* get inversion() that never finds the bass in the chord *)
inversionNull(t, chord) == NULL

(* get inversion() that counts the tones of the chord from 1 *)
inversionFromOne(t, chord) ==
  LET found ==
        IndexOf(PCSetTranspose(TypePcset(t.nodes[chord.type].intervals),
                               PitchClassChroma(chord.root)),
                PitchClassChroma(chord.bass))
  IN  IF found = -1 THEN NULL ELSE Some(found + 1)

(* get inversion(): null if the bass is not in the chord *)
ChordInversion(t, chord) ==
  LET bassNote == Coalesce(ChordBass(chord), Some(chord.root))[1]
      inversion ==
        IndexOf(PCSetTranspose(TypePcset(t.nodes[chord.type].intervals),
                               PitchClassChroma(chord.root)),
                PitchClassChroma(bassNote))
  IN  IF inversion = -1 THEN NULL ELSE Some(inversion)

(* this.equalTo(chord) *)
equalTo(this, chord) ==
  LET effectiveBass(c) ==
        IF IsNull(ChordBass(c)) THEN PitchClassChroma(c.root)
        ELSE PitchClassChroma(ChordBass(c)[1])
  IN  /\ PitchClassChroma(this.root) = PitchClassChroma(chord.root)
      /\ this.type = chord.type
      /\ effectiveBass(this) = effectiveBass(chord)

-----------------------------------------------------------------------------
(* chord.ts: guessChord.  Options are [allowOmissions, allowInversions,   *)
(* allowSlash], each a nullable boolean (null: the property is absent).    *)
(* A result [chord, weight] also records where it was found: pass is 1    *)
(* for the rotations of all notes and 2 for those of the notes without    *)
(* the bass, rotation is the 0-based index of the rotation.  The state of *)
(* a call is acc = [mod, out]: the module state and Ok(found) or the      *)
(* exception thrown.                                                       *)

WithDefault(option, default) == IF IsNull(option) THEN default ELSE option[1]

(* PCSet.fromArray on Notes: getChroma is p.chroma *)
PCSetFromNotes(notes) ==
  PCSetCreate([k \in DOMAIN notes |-> PitchClassChroma(notes[k])])

(* a test of processRotations left out *)
neverSkip(allow, what) == FALSE

neverSkipSlash(allowSlash, root, bass) == FALSE

(* if (!allowSlash && root.chroma !== bass.chroma) continue *)
skipSlash(allowSlash, root, bass) ==
  ~allowSlash /\ PitchClassChroma(root) # PitchClassChroma(bass)

(* if (!allowInversions && inversion > 0) continue *)
skipInversion(allowInversions, inversion) == ~allowInversions /\ inversion > 0

(* if (!allowOmissions && hasOmission) continue *)
skipOmission(allowOmissions, hasOmission) == ~allowOmissions /\ hasOmission

(* The body of the loop of processRotations, in four parts: the lookup  *)
(* of the type, the tests on root and bass, the construction of the      *)
(* chord, and the tests on the chord with the push.  looked is what      *)
(* ChordType.find left and returned.                                      *)
processChord(acc, looked, chord, options, pass, index) ==
  LET allowOmissions == WithDefault(options.allowOmissions, TRUE)
      allowInversions == WithDefault(options.allowInversions, TRUE)
      found == acc.out.value
      inversion == Coalesce(ChordInversion(looked.mod.tree[1], chord), Some(0))[1]
      hasOmission == ~IsNull(looked.mod.tree[1].nodes[chord.type].omission)
      weight1 == IF allowOmissions /\ hasOmission THEN DETECT_OMISSION_SCORE ELSE ONE
      weight2 == IF ~IsNull(ChordBass(chord)) THEN DETECT_INVERSION_SCORE ELSE ONE
      isExisting == \E k \in DOMAIN found : equalTo(found[k].chord, chord)
  IN  [mod |-> looked.mod,
       out |-> IF \/ skipInversion(allowInversions, inversion)
                  \/ skipOmission(allowOmissions, hasOmission)
                  \/ isExisting
               THEN acc.out
               ELSE Ok(Append(found, [chord |-> chord,
                                      weight |-> (weight1 * weight2) \div ONE,
                                      pass |-> pass,
                                      rotation |-> index]))]

processPitchClasses(acc, looked, rootPc, bassPc, options, pass, index) ==
  IF ~rootPc.ok THEN [mod |-> looked.mod, out |-> rootPc]
  ELSE IF ~bassPc.ok THEN [mod |-> looked.mod, out |-> bassPc]
  ELSE processChord(acc, looked,
                    Chord(rootPc.value, looked.out.value[1], Some(bassPc.value)),
                    options, pass, index)

processType(acc, looked, notes, options, rotation, pass, index) ==
  IF IsNull(looked.out.value) THEN [mod |-> looked.mod, out |-> acc.out]
  (* rotation[0] and notes[0] are undefined when there is no note *)
  ELSE IF rotation = <<>> THEN [mod |-> looked.mod, out |-> Throw("TypeError")]
  ELSE IF skipSlash(WithDefault(options.allowSlash, TRUE), rotation[1], notes[1])
       THEN [mod |-> looked.mod, out |-> acc.out]
  ELSE processPitchClasses(acc, looked,
                           PitchClassFromChroma(PitchClassChroma(rotation[1])),
                           PitchClassFromChroma(PitchClassChroma(notes[1])),
                           options, pass, index)

processRotation(acc, notes, options, rotation, pass, index) ==
  IF ~acc.out.ok THEN acc
  ELSE processType(acc,
                   ChordTypeFind(acc.mod,
                                 Num(PCSetBinary(PCSetZero(PCSetFromNotes(rotation)))),
                                 TRUE),
                   notes, options, rotation, pass, index)

RECURSIVE processRotations(_, _, _, _, _, _)
(* the loop of processRotations from rotations[k] on; an exception ends  *)
(* it                                                                      *)
processRotations(acc, notes, options, rotations, pass, k) ==
  IF k > Len(rotations) THEN acc
  ELSE LET processed == processRotation(acc, notes, options, rotations[k], pass, k - 1)
       IN  IF processed.out.ok
           THEN processRotations(processed, notes, options, rotations, pass, k + 1)
           ELSE processed

(* found returned as it is, without the sort *)
unsorted(found) == found

RECURSIVE InsertByWeight(_, _)
(* r goes after every element that the comparator does not put after it *)
InsertByWeight(sorted, r) ==
  IF sorted = <<>> THEN <<r>>
  ELSE IF r.weight - sorted[Len(sorted)].weight <= 0
       THEN Append(sorted, r)
       ELSE Append(InsertByWeight(SubSeq(sorted, 1, Len(sorted) - 1), r),
                   sorted[Len(sorted)])

RECURSIVE SortByWeight(_)
(* found.sort((a, b) => b.weight - a.weight), a stable sort *)
SortByWeight(found) ==
  IF found = <<>> THEN <<>>
  ELSE InsertByWeight(SortByWeight(SubSeq(found, 1, Len(found) - 1)),
                      found[Len(found)])

(* the rotations without the bass probed from three notes on *)
secondPassFromThree(first, notes, options) ==
  IF Len(notes) > 2
  THEN processRotations(first, notes, options, generateRotations(Tail(notes)), 2, 1)
  ELSE first

(* the rotations of the notes without the first, for more than 3 notes *)
secondPass(first, notes, options) ==
  IF Len(notes) > 3
  THEN processRotations(first, notes, options, generateRotations(Tail(notes)), 2, 1)
  ELSE first

(* return found.sort(...), unless an exception was thrown *)
returnSorted(acc) ==
  IF acc.out.ok THEN [mod |-> acc.mod, out |-> Ok(SortByWeight(acc.out.value))] ELSE acc

guessChord(m, notes, options) ==
  returnSorted(secondPass(processRotations([mod |-> m, out |-> Ok(<<>>)],
                                           notes, options, generateRotations(notes), 1, 1),
                          notes, options))

(* the callback of noteArr.map in Chord.guess *)
toNote(n) ==
  IF n.type = "Note" THEN Ok(n.note)
  ELSE IF n.type = "string" /\ ~\E j \in DOMAIN n.string : IsDigit(n.string[j])
       THEN NoteFrom(Str(Append(n.string, "4")))
  ELSE NoteFrom(n)

(* Chord.guess without the filter on the chroma: every note is kept *)
guessKeeping(m, noteArr, options) ==
  LET mapped == [k \in DOMAIN noteArr |-> toNote(noteArr[k])]
      failed == {k \in DOMAIN mapped : ~mapped[k].ok}
  IN  IF failed # {}
      THEN [mod |-> m, out |-> mapped[CHOOSE k \in failed : \A j \in failed : k <= j]]
      ELSE guessChord(m, SelectSeq([k \in DOMAIN mapped |-> mapped[k].value], IsNote),
                      options)

(* Chord.guess with a conversion that yields nothing in place of an     *)
(* exception: the filter drops the element                               *)
guessDropping(m, noteArr, options) ==
  LET mapped == [k \in DOMAIN noteArr |-> toNote(noteArr[k])]
      instances ==
        SelectSeq([k \in DOMAIN mapped |->
                     IF mapped[k].ok THEN mapped[k].value ELSE [invalid |-> TRUE]],
                  IsNote)
      kept ==
        SelectSeq([k \in DOMAIN instances |->
                     [note |-> instances[k],
                      first |-> ~\E j \in 1..(k - 1) :
                                   PitchClassChroma(instances[j])
                                     = PitchClassChroma(instances[k])]],
                  LAMBDA e : e.first)
  IN  guessChord(m, [k \in DOMAIN kept |-> kept[k].note], options)

(* Chord.guess: the first element whose conversion throws ends the call *)
guess(m, noteArr, options) ==
  LET mapped == [k \in DOMAIN noteArr |-> toNote(noteArr[k])]
      failed == {k \in DOMAIN mapped : ~mapped[k].ok}
      instances ==
        SelectSeq([k \in DOMAIN mapped |-> mapped[k].value], IsNote)
      kept ==
        SelectSeq([k \in DOMAIN instances |->
                     [note |-> instances[k],
                      first |-> ~\E j \in 1..(k - 1) :
                                   PitchClassChroma(instances[j])
                                     = PitchClassChroma(instances[k])]],
                  LAMBDA e : e.first)
      notes == [k \in DOMAIN kept |-> kept[k].note]
  IN  IF failed # {}
      THEN [mod |-> m, out |-> mapped[CHOOSE k \in failed : \A j \in failed : k <= j]]
      ELSE guessChord(m, notes, options)

-----------------------------------------------------------------------------
(* The inputs of the calls. *)

MaxNotes == 4

MaxBadNotes == 3

(* elements that resolve to a note: names without and with an octave, a   *)
(* MIDI number and a Note                                                  *)
Pitches ==
  {Str(<<"C">>), Str(<<"D">>), Str(<<"E", "4">>), Num(67), NoteInstance("B", NULL, 3)}

(* elements that do not: a letter outside A-G, a MIDI number above 127,   *)
(* a name with two octave digits                                           *)
BadElements == {Str(<<"H">>), Num(128), Str(<<"C", "1", "0">>)}

SeqsUpTo(S, n) == UNION {[1..k -> S] : k \in 0..n}

NoteArrs ==
  SeqsUpTo(Pitches, MaxNotes) \cup SeqsUpTo(Pitches \cup BadElements, MaxBadNotes)

Options(o, i, s) == [allowOmissions |-> o, allowInversions |-> i, allowSlash |-> s]

NoOptions == Options(NULL, NULL, NULL)

GuessOptions ==
  {NoOptions} \cup {Options(Some(o), Some(i), Some(s)) : o, i, s \in BOOLEAN}

GuessCall(noteArr, options) == [op |-> "guess", noteArr |-> noteArr, options |-> options]

FindCall(key, allowOmissions) == [op |-> "find", key |-> key, allowOmissions |-> allowOmissions]

SearchCall(key) == [op |-> "search", key |-> key]

TreeCall == [op |-> "tree"]

NoCall == [op |-> "none"]

(* the calls of the sequences of calls *)
SampleNoteArrs ==
  {<<>>,
   <<Str(<<"C">>)>>,
   <<Str(<<"C">>), Str(<<"E">>), Str(<<"G">>)>>,
   <<Str(<<"E">>), Str(<<"G">>), Str(<<"C">>)>>,
   <<Str(<<"D">>), Str(<<"C">>), Str(<<"E", "4">>), Num(67)>>,
   <<Str(<<"C">>), Str(<<"H">>)>>}

SampleOptions == {NoOptions, Options(Some(TRUE), Some(FALSE), Some(TRUE))}

SampleKeys == {Str("maj7"), Str("0,4,7"), Str("nope"), Num(145), Num(0)}

-----------------------------------------------------------------------------
(* tree is the module variable of chord.ts.  The others record the calls: *)
(* builds counts the runs of buildTree, observed is the tree that the     *)
(* last useTree returned (trees are numbered by the run of buildTree that *)
(* made them, 0: no useTree yet), call and result are the last call and   *)
(* what it returned or threw (null while the call is pending), built      *)
(* tells whether the last call ran buildTree, and prev holds call, result *)
(* and built of the call before.                                           *)
VARIABLES tree, builds, observed, call, result, built, prev

vars == <<tree, builds, observed, call, result, built, prev>>

NoPrev == [call |-> NoCall, result |-> NULL, built |-> FALSE]

Init ==
  /\ tree = NULL
  /\ builds = 0
  /\ observed = 0
  /\ call = NoCall
  /\ result = NULL
  /\ built = FALSE
  /\ prev = NoPrev

(* what a call leaves: done is [mod, out] *)
Return(done) ==
  /\ tree' = done.mod.tree
  /\ builds' = done.mod.builds
  /\ observed' = IF IsNull(done.mod.tree) THEN observed ELSE done.mod.builds
  /\ built' = (done.mod.builds > builds)
  /\ result' = Some(done.out)

Called(c) ==
  /\ call' = c
  /\ prev' = [call |-> call, result |-> result, built |-> built]

Mod == [tree |-> tree, builds |-> builds]

Guess(noteArr, options) ==
  /\ Called(GuessCall(noteArr, options))
  /\ Return(guess(Mod, noteArr, options))

Find(key, allowOmissions) ==
  /\ Called(FindCall(key, allowOmissions))
  /\ Return(ChordTypeFind(Mod, key, allowOmissions))

Search(key) ==
  /\ Called(SearchCall(key))
  /\ Return(ChordTypeSearch(Mod, key))

Tree ==
  /\ Called(TreeCall)
  /\ Return(ChordTypeTreeCall(Mod))

(* the methods of the tree that ChordType.tree() returns *)
FindByIntervals(intervalString, allowOmissions) ==
  /\ Called([op |-> "findByIntervals", key |-> Str(intervalString),
             allowOmissions |-> allowOmissions])
  /\ Return(LET used == useTree(Mod)
            IN  [mod |-> used,
                 out |-> Ok(findByIntervals(used.tree[1], intervalString, allowOmissions))])

FindBySymbol(symbol) ==
  /\ Called([op |-> "findBySymbol", key |-> Str(symbol)])
  /\ Return(LET used == useTree(Mod)
            IN  [mod |-> used, out |-> Ok(findBySymbol(used.tree[1], symbol))])

FindByName(name) ==
  /\ Called([op |-> "findByName", key |-> Str(name)])
  /\ Return(LET used == useTree(Mod)
            IN  [mod |-> used, out |-> Ok(findByName(used.tree[1], name))])

FindByBinary(binary) ==
  /\ Called([op |-> "findByBinary", key |-> Num(binary)])
  /\ Return(LET used == useTree(Mod)
            IN  [mod |-> used, out |-> Ok(findByBinary(used.tree[1], binary))])

Next ==
  \/ \E noteArr \in SampleNoteArrs, options \in SampleOptions : Guess(noteArr, options)
  \/ \E key \in SampleKeys, allowOmissions \in BOOLEAN : Find(key, allowOmissions)
  \/ \E key \in SampleKeys : Search(key)
  \/ Tree

Spec == Init /\ [][Next]_vars

(* Sequences of calls of Chord.guess and of every query of the tree.      *)
QueryNoteArrs ==
  {<<Str(<<"C">>), Str(<<"E">>), Str(<<"G">>)>>,
   <<Str(<<"D">>), Str(<<"C">>), Str(<<"E", "4">>), Num(67)>>}

QueryStrings == {"maj7", "major", "0,4,7", "0,4"}

QueryNumbers == {145, 0}

NextQueries ==
  \/ \E noteArr \in QueryNoteArrs : Guess(noteArr, NoOptions)
  \/ \E string \in QueryStrings : Find(Str(string), TRUE)
  \/ \E number \in QueryNumbers : Find(Num(number), FALSE)
  \/ \E string \in QueryStrings : Search(Str(string))
  \/ \E intervalString \in QueryStrings, allowOmissions \in BOOLEAN :
       FindByIntervals(intervalString, allowOmissions)
  \/ \E symbol \in QueryStrings : FindBySymbol(symbol)
  \/ \E name \in QueryStrings : FindByName(name)
  \/ \E binary \in QueryNumbers : FindByBinary(binary)

SpecQueries == Init /\ [][NextQueries]_vars

(* One call of Chord.guess on every input, before and after the tree is   *)
(* built.                                                                  *)
InitGuess ==
  /\ \/ tree = NULL /\ builds = 0 /\ observed = 0
     \/ tree = Some(DatabaseTree) /\ builds = 1 /\ observed = 1
  /\ \E noteArr \in NoteArrs, options \in GuessOptions : call = GuessCall(noteArr, options)
  /\ result = NULL
  /\ built = FALSE
  /\ prev = NoPrev

GuessPending ==
  /\ result = NULL
  /\ call.op = "guess"
  /\ Return(guess(Mod, call.noteArr, call.options))
  /\ UNCHANGED <<call, prev>>

NextGuess == GuessPending

SpecGuess == InitGuess /\ [][NextGuess]_vars

-----------------------------------------------------------------------------
(* The properties.  GuessDone: the last call is a call of Chord.guess     *)
(* that has ended; Returned: it returned a list, Results.                  *)

GuessDone == call.op = "guess" /\ result # NULL

Returned == GuessDone /\ result[1].ok

Raised == GuessDone /\ ~result[1].ok

Results == result[1].value

(* the ChordTypeNode of a result *)
TypeOf(r) == tree[1].nodes[r.chord.type]

RootChroma(r) == PitchClassChroma(r.chord.root)

BassChroma(r) == PitchClassChroma(r.chord.bass)

(* the notes that guessChord receives from a list whose elements all      *)
(* resolve: the first note of each chroma                                  *)
Resolves(noteArr) == \A k \in DOMAIN noteArr : toNote(noteArr[k]).ok

Chromas(noteArr) == Unique([k \in DOMAIN noteArr |-> PitchClassChroma(toNote(noteArr[k]).value)])

(* what Chord.guess returns for the notes of the last call under other    *)
(* options                                                                 *)
Under(options) == guess(Mod, call.noteArr, options).out

(* C1: over any sequence of calls of Chord.guess, ChordType.find,         *)
(* ChordType.search and ChordType.tree, buildTree runs at most once, the  *)
(* module variable keeps the tree once it holds one, and every call       *)
(* after the first that used the tree observes the same tree.  The calls  *)
(* are synchronous: one runs to its end before the next begins.            *)
C1_BuiltOnce ==
  [][/\ builds' <= 1
     /\ tree # NULL => tree' = tree
     /\ observed # 0 => observed' = observed]_vars

(* a call that found the tree built by the call before it *)
C1_Witness ==
  /\ prev.built
  /\ ~built
  /\ builds = 1
  /\ observed = 1
  /\ call.op \in {"guess", "find", "search", "tree"}
  /\ result[1].ok

(* C3: two calls of Chord.guess in a row with the same notes and the same *)
(* options return the same list, or throw the same exception, also when   *)
(* the first of them built the tree.                                       *)
C3_Deterministic ==
  (GuessDone /\ prev.call.op = "guess" /\ prev.call = call) => prev.result = result

(* the first call built the tree, the second used it, and both returned   *)
(* the same list of more than one chord                                    *)
C3_Witness ==
  /\ GuessDone
  /\ prev.call = call
  /\ prev.built
  /\ ~built
  /\ Returned
  /\ Len(Results) > 1
  /\ prev.result = result

(* C2: Chord.guess on an empty list, or on a list of one element that     *)
(* resolves to a note, returns a list, and the list is empty for the      *)
(* empty list.                                                             *)
C2_EmptyOrSingleReturns ==
  (GuessDone /\ Len(call.noteArr) <= 1 /\ Resolves(call.noteArr))
    => (Returned /\ (call.noteArr = <<>> => Results = <<>>))

(* the call on the empty list has thrown a TypeError *)
C2_EmptyRaises ==
  /\ GuessDone
  /\ call.noteArr = <<>>
  /\ Raised
  /\ result[1].error = "TypeError"

(* a is found before b *)
FoundBefore(a, b) == a.pass < b.pass \/ (a.pass = b.pass /\ a.rotation < b.rotation)

(* C4: the list that Chord.guess returns is in order of non-increasing    *)
(* weight, and results of equal weight are in the order in which they     *)
(* were found: the rotations of all notes in rotation order, then the     *)
(* rotations of the notes without the bass.                                *)
C4_Ordered ==
  Returned =>
    \A i, j \in DOMAIN Results :
      i < j => \/ Results[i].weight > Results[j].weight
               \/ /\ Results[i].weight = Results[j].weight
                  /\ FoundBefore(Results[i], Results[j])

(* a list in which the sort moved a result found later before one found   *)
(* earlier, and in which a result of each pass has the same weight         *)
C4_Witness ==
  /\ Returned
  /\ \E i, j \in DOMAIN Results : i < j /\ FoundBefore(Results[j], Results[i])
  /\ \E i, j \in DOMAIN Results :
       /\ i < j
       /\ Results[i].weight = Results[j].weight
       /\ Results[i].pass = 1
       /\ Results[j].pass = 2

(* C5: the weight of every result is (0.75 if its type has an omission    *)
(* list, else 1) times (0.5 if the chroma of its bass differs from the    *)
(* chroma of its root, else 1); it is one of 1, 0.75, 0.5 and 0.375, and  *)
(* it is 1 exactly when the type has no omission list and the bass is the *)
(* root.  Weights are in thousandths.                                      *)
C5_Weight ==
  Returned =>
    \A k \in DOMAIN Results :
      LET r == Results[k]
          omits == TypeOf(r).omission # NULL
          slash == BassChroma(r) # RootChroma(r)
      IN  /\ r.weight * 1000 = (IF omits THEN 750 ELSE 1000) * (IF slash THEN 500 ELSE 1000)
          /\ r.weight \in {1000, 750, 500, 375}
          /\ r.weight = 1000 <=> (~omits /\ ~slash)

(* a list with a result of weight 1 and one of weight 0.375 *)
C5_Witness ==
  /\ Returned
  /\ \E k \in DOMAIN Results : Results[k].weight = 1000
  /\ \E k \in DOMAIN Results :
       /\ Results[k].weight = 375
       /\ TypeOf(Results[k]).omission # NULL
       /\ BassChroma(Results[k]) # RootChroma(Results[k])

(* C6: with allowSlash false the root of every result has the chroma of   *)
(* the bass, the first note of the list; no result comes from the         *)
(* rotations without the bass, and there is at most one result.            *)
C6_NoSlash ==
  (Returned /\ call.options.allowSlash = Some(FALSE)) =>
    /\ Len(Results) <= 1
    /\ \A k \in DOMAIN Results :
         /\ RootChroma(Results[k]) = Chromas(call.noteArr)[1]
         /\ RootChroma(Results[k]) = BassChroma(Results[k])
         /\ Results[k].pass = 1

(* more than three notes, one result with allowSlash false and more than  *)
(* one without options                                                     *)
C6_Witness ==
  /\ Returned
  /\ call.options.allowSlash = Some(FALSE)
  /\ Len(Chromas(call.noteArr)) > 3
  /\ Len(Results) = 1
  /\ Len(Under(NoOptions).value) > 1

InversionOf(r) == ChordInversion(tree[1], r.chord)

(* C7: with allowInversions false no result has an inversion above 0, and *)
(* every result with the bass as root that is returned with               *)
(* allowInversions true (the other options the same) is returned, with    *)
(* the same weight.                                                        *)
C7_NoInversions ==
  (Returned /\ call.options.allowInversions = Some(FALSE)) =>
    /\ \A k \in DOMAIN Results :
         InversionOf(Results[k]) = NULL \/ InversionOf(Results[k]) = Some(0)
    /\ LET allowed == Under([call.options EXCEPT !.allowInversions = Some(TRUE)])
       IN  /\ allowed.ok
           /\ \A k \in DOMAIN allowed.value :
                RootChroma(allowed.value[k]) = BassChroma(allowed.value[k]) =>
                  \E j \in DOMAIN Results :
                    /\ Results[j].chord = allowed.value[k].chord
                    /\ Results[j].weight = allowed.value[k].weight

(* a root-position result is returned, and an inversion that the default  *)
(* options return is not                                                   *)
C7_Witness ==
  /\ Returned
  /\ call.options = Options(Some(TRUE), Some(FALSE), Some(TRUE))
  /\ \E k \in DOMAIN Results :
       InversionOf(Results[k]) = Some(0) /\ Results[k].weight = 750
  /\ \E k \in DOMAIN Under(NoOptions).value :
       /\ InversionOf(Under(NoOptions).value[k]) \notin {NULL, Some(0)}
       /\ \A j \in DOMAIN Results : Results[j].chord # Under(NoOptions).value[k].chord

(* C8: with allowOmissions false no result has a type with an omission    *)
(* list, whatever the other two options are.                               *)
C8_NoOmissions ==
  (Returned /\ call.options.allowOmissions = Some(FALSE)) =>
    \A k \in DOMAIN Results : TypeOf(Results[k]).omission = NULL

(* results are returned, and a result with an omission list that is       *)
(* returned with allowOmissions true is not                                *)
C8_Witness ==
  /\ Returned
  /\ call.options.allowOmissions = Some(FALSE)
  /\ Results # <<>>
  /\ LET allowed == Under([call.options EXCEPT !.allowOmissions = Some(TRUE)]).value
     IN  \E k \in DOMAIN allowed : TypeOf(allowed[k]).omission # NULL

(* C9 as stated: with allowInversions false every result has its bass     *)
(* equal to its root.                                                      *)
C9_BassIsRoot ==
  (Returned /\ call.options.allowInversions = Some(FALSE)) =>
    \A k \in DOMAIN Results : BassChroma(Results[k]) = RootChroma(Results[k])

(* the chromas of the tones of the chord of r *)
Tones(r) == Range(PCSetTranspose(TypePcset(TypeOf(r).intervals), RootChroma(r)))

(* C9: with allowInversions false every result has its bass equal to its  *)
(* root, or a bass that is not a tone of the chord; the second only with  *)
(* allowSlash not false, for more than three notes, from the rotations    *)
(* without the bass.                                                       *)
C9_BassIsRootOrNoTone ==
  (Returned /\ call.options.allowInversions = Some(FALSE)) =>
    \A k \in DOMAIN Results :
      \/ BassChroma(Results[k]) = RootChroma(Results[k])
      \/ /\ BassChroma(Results[k]) \notin Tones(Results[k])
         /\ call.options.allowSlash # Some(FALSE)
         /\ Len(Chromas(call.noteArr)) > 3
         /\ Results[k].pass = 2

(* with allowInversions false a chord over a bass that is none of its     *)
(* tones is returned                                                       *)
C9_Witness ==
  /\ Returned
  /\ call.options.allowInversions = Some(FALSE)
  /\ \E k \in DOMAIN Results :
       /\ BassChroma(Results[k]) # RootChroma(Results[k])
       /\ BassChroma(Results[k]) \notin Tones(Results[k])

(* the exceptions of Note.from for a name or a number that is no note *)
InvalidInput ==
  {"Invalid pitch class name", "Invalid MIDI number", "Invalid note octave",
   "Invalid note octave in name"}

(* C10: when an element of the list does not resolve to a note, at any    *)
(* position, Chord.guess throws the exception of that element and         *)
(* returns no list.                                                        *)
C10_BadElementRaises ==
  (GuessDone /\ ~Resolves(call.noteArr)) =>
    /\ Raised
    /\ result[1].error \in InvalidInput
    /\ DOMAIN result[1] = {"ok", "error"}

(* the call has thrown for a list whose last element alone is no note *)
C10_Witness ==
  /\ Raised
  /\ Len(call.noteArr) = 3
  /\ toNote(call.noteArr[1]).ok
  /\ toNote(call.noteArr[2]).ok
  /\ ~toNote(call.noteArr[3]).ok
  /\ result[1].error = "Invalid MIDI number"

(* One call of Chord.guess on every list of elements of which several    *)
(* have the same chroma: C, MIDI 60 and B#5, E4 and MIDI 64.               *)
SameChromaPitches ==
  {Str(<<"C">>), Num(60), Str(<<"B", "#", "5">>), Str(<<"E", "4">>), Num(64), Num(67),
   Str(<<"D">>)}

InitDuplicates ==
  /\ \/ tree = NULL /\ builds = 0 /\ observed = 0
     \/ tree = Some(DatabaseTree) /\ builds = 1 /\ observed = 1
  /\ \E noteArr \in SeqsUpTo(SameChromaPitches, MaxNotes), options \in SampleOptions :
       call = GuessCall(noteArr, options)
  /\ result = NULL
  /\ built = FALSE
  /\ prev = NoPrev

SpecDuplicates == InitDuplicates /\ [][NextGuess]_vars

(* the chroma of an element that resolves to a note *)
ChromaOf(n) == PitchClassChroma(toNote(n).value)

(* noteArr without every element whose chroma an earlier element has *)
FirstOfEachChroma(noteArr) ==
  SelectSeq([k \in DOMAIN noteArr |->
               [element |-> noteArr[k],
                later |-> \E j \in 1..(k - 1) : ChromaOf(noteArr[j]) = ChromaOf(noteArr[k])]],
            LAMBDA e : ~e.later)

(* C11: for a list whose elements all resolve, Chord.guess returns what   *)
(* it returns for the list without every later note of a chroma already   *)
(* seen (the same name, another octave or another spelling).               *)
C11_FirstOfChromaKept ==
  (GuessDone /\ Resolves(call.noteArr)) =>
    LET kept == FirstOfEachChroma(call.noteArr)
    IN  result[1] = guess(Mod, [k \in DOMAIN kept |-> kept[k].element], call.options).out

(* a list that holds C before B#5, and E twice, for which chords are      *)
(* returned                                                                *)
C11_Witness ==
  /\ Returned
  /\ Results # <<>>
  /\ call.noteArr = <<Str(<<"C">>), Str(<<"E", "4">>), Str(<<"B", "#", "5">>), Str(<<"E", "4">>)>>
  /\ Len(FirstOfEachChroma(call.noteArr)) = 2

(* this.bass?.chroma ?? this.root.chroma *)
EffectiveBassChroma(chord) ==
  IF IsNull(ChordBass(chord)) THEN PitchClassChroma(chord.root)
  ELSE PitchClassChroma(ChordBass(chord)[1])

(* C12: in every result, of either pass, the chroma of the bass of the    *)
(* chord, or of its root when its bass is null, is the chroma of the      *)
(* first note of the list.                                                 *)
C12_BassIsFirstNote ==
  Returned =>
    \A k \in DOMAIN Results :
      EffectiveBassChroma(Results[k].chord) = ChromaOf(call.noteArr[1])

(* the first note, G4, is above the C4 that follows it, and results of    *)
(* both passes are returned, one of them with root C                       *)
C12_Witness ==
  /\ Returned
  /\ Len(call.noteArr) = 4
  /\ call.noteArr[1] = Num(67)
  /\ call.noteArr[2] = Str(<<"C">>)
  /\ \E k \in DOMAIN Results : Results[k].pass = 1 /\ RootChroma(Results[k]) = 0
  /\ \E k \in DOMAIN Results : Results[k].pass = 2
  /\ \A k \in DOMAIN Results : EffectiveBassChroma(Results[k].chord) = 7


-----------------------------------------------------------------------------
(* C13: Chord.guess(['C','E','G']) with default options returns a list    *)
(* whose first result has the root C, the chord type of the database row  *)
(* "major" (intervals P1 M3 P5, nothing omitted, symbols with "maj" and   *)
(* "M") and the weight 1.                                                  *)
C13_CMajor ==
  (Returned /\ call.noteArr = <<Str(<<"C">>), Str(<<"E">>), Str(<<"G">>)>>
            /\ call.options = NoOptions)
    => /\ Results # <<>>
       /\ Results[1].chord.root = PitchClass("C", NULL)
       /\ TypeOf(Results[1]).name = Some("major")
       /\ {"maj", "M"} \subseteq Range(TypeOf(Results[1]).symbols)
       /\ IsNull(TypeOf(Results[1]).omission)
       /\ TypePcset(TypeOf(Results[1]).intervals) = <<0, 4, 7>>
       /\ Results[1].weight = ONE

C13_Witness ==
  /\ Returned
  /\ call.noteArr = <<Str(<<"C">>), Str(<<"E">>), Str(<<"G">>)>>
  /\ call.options = NoOptions
  /\ Len(Results) = 1
  /\ IsNull(ChordBass(Results[1].chord))

-----------------------------------------------------------------------------
EGC == <<Str(<<"E">>), Str(<<"G">>), Str(<<"C">>)>>

(* the tones of a result's chord, in the order of its type's intervals *)
ToneChromas(r) ==
  [k \in DOMAIN TypeOf(r).intervals |->
     (RootChroma(r) + IntervalChroma(TypeOf(r).intervals[k])) % 12]

(* the chroma of the bass of a result's chord *)
BassChromaOf(r) == EffectiveBassChroma(r.chord)

(* C14 as stated: Chord.guess(['E','G','C']) with default options returns *)
(* a best result with root C, bass E, inversion 2 and a weight below 1.   *)
C14_SecondIndex ==
  (Returned /\ call.noteArr = EGC /\ call.options = NoOptions)
    => /\ Results # <<>>
       /\ RootChroma(Results[1]) = 0
       /\ BassChromaOf(Results[1]) = 4
       /\ ChordInversion(tree[1], Results[1].chord) = Some(2)
       /\ Results[1].weight < ONE

(* C14: Chord.guess(['E','G','C']) with default options returns a best    *)
(* result with root C, bass E, inversion 1 (the index, from 0, of E in    *)
(* C E G) and a weight below 1; and the inversion of every returned chord *)
(* is the index from 0 of the first tone of the chord that has the        *)
(* chroma of the bass, null when no tone has it.                          *)
C14_InversionIsIndex ==
  Returned =>
    /\ (call.noteArr = EGC /\ call.options = NoOptions)
         => /\ Results # <<>>
            /\ Results[1].chord.root = PitchClass("C", NULL)
            /\ ChordBass(Results[1].chord) = Some(PitchClass("E", NULL))
            /\ ChordInversion(tree[1], Results[1].chord) = Some(1)
            /\ Results[1].weight < ONE
    /\ \A k \in DOMAIN Results :
         LET r == Results[k]
             at == {i \in DOMAIN ToneChromas(r) : ToneChromas(r)[i] = BassChromaOf(r)}
         IN  ChordInversion(tree[1], r.chord) =
               IF at = {} THEN NULL
               ELSE Some((CHOOSE i \in at : \A j \in at : i <= j) - 1)

C14_Witness ==
  /\ Returned
  /\ call.noteArr = EGC
  /\ call.options = NoOptions
  /\ Results # <<>>
  /\ RootChroma(Results[1]) = 0
  /\ BassChromaOf(Results[1]) = 4
  /\ Results[1].weight = DETECT_INVERSION_SCORE

-----------------------------------------------------------------------------
(* One call of Chord.guess, with default options, on the full pattern of  *)
(* every row of the database stacked on every root: the notes are MIDI    *)
(* numbers, the root in the octave of MIDI 48, every other note above it  *)
(* by the semitones of its interval, in the order of the row.              *)
Roots == 0..11

Stack(row, root) ==
  [k \in DOMAIN row.intervals |->
     Num(48 + root
         + IntervalSemitones(Interval(row.intervals[k].quality,
                                      row.intervals[k].number)))]

InitRows ==
  /\ \/ tree = NULL /\ builds = 0 /\ observed = 0
     \/ tree = Some(DatabaseTree) /\ builds = 1 /\ observed = 1
  /\ \E i \in DOMAIN CHORD_TYPE_DATABASE, root \in Roots :
       call = GuessCall(Stack(CHORD_TYPE_DATABASE[i], root), NoOptions)
  /\ result = NULL
  /\ built = FALSE
  /\ prev = NoPrev

SpecRows == InitRows /\ [][NextGuess]_vars

(* C15: for every row of the database and every root, the guess on the    *)
(* row's full pattern stacked on the root returns a list whose first      *)
(* result has that root, the row's name, no omission and the weight 1.    *)
C15_EveryRowGuessedBack ==
  GuessDone =>
    \A i \in DOMAIN CHORD_TYPE_DATABASE, root \in Roots :
      call = GuessCall(Stack(CHORD_TYPE_DATABASE[i], root), NoOptions)
        => /\ result[1].ok
           /\ Results # <<>>
           /\ RootChroma(Results[1]) = root
           /\ TypeOf(Results[1]).name = Some(CHORD_TYPE_DATABASE[i].name)
           /\ IsNull(TypeOf(Results[1]).omission)
           /\ Results[1].weight = ONE

(* the row "major diminished fifth" on C: nothing is returned *)
C15_RowNotFound ==
  /\ Returned
  /\ \E i \in DOMAIN CHORD_TYPE_DATABASE :
       /\ CHORD_TYPE_DATABASE[i].name = "major diminished fifth"
       /\ call = GuessCall(Stack(CHORD_TYPE_DATABASE[i], 0), NoOptions)
  /\ call.noteArr = <<Num(48), Num(52), Num(54)>>
  /\ Results = <<>>

-----------------------------------------------------------------------------
(* One call of ChordType.find on every symbol of every row of the         *)
(* database, with and without omissions allowed.                           *)
Symbols == UNION {Range(CHORD_TYPE_DATABASE[i].symbols) : i \in DOMAIN CHORD_TYPE_DATABASE}

InitSymbols ==
  /\ \/ tree = NULL /\ builds = 0 /\ observed = 0
     \/ tree = Some(DatabaseTree) /\ builds = 1 /\ observed = 1
  /\ \E s \in Symbols, allowOmissions \in BOOLEAN : call = FindCall(Str(s), allowOmissions)
  /\ result = NULL
  /\ built = FALSE
  /\ prev = NoPrev

FindPending ==
  /\ result = NULL
  /\ call.op = "find"
  /\ Return(ChordTypeFind(Mod, call.key, call.allowOmissions))
  /\ UNCHANGED <<call, prev>>

NextFind == FindPending

SpecSymbols == InitSymbols /\ [][NextFind]_vars

FindDone == call.op = "find" /\ result # NULL

(* the node that the last call of find returned, null if none *)
Found == result[1].value

FoundNode == tree[1].nodes[Found[1]]

(* C16: ChordType.find('maj7') returns a node whose symbols contain       *)
(* "maj7", with no omission and the four intervals P1 M3 P5 M7; and       *)
(* find(s), for a symbol s of a row of the database, returns a node       *)
(* whose symbols contain s.                                                *)
C16_SymbolFound ==
  (FindDone /\ call.key.type = "string" /\ call.key.string \in Symbols) =>
    /\ ~IsNull(Found)
    /\ call.key.string \in Range(FoundNode.symbols)
    /\ (call.key.string = "maj7" /\ call.allowOmissions)
         => /\ IsNull(FoundNode.omission)
            /\ FoundNode.intervals
                 = <<Interval(<<"P">>, 1), Interval(<<"M">>, 3),
                     Interval(<<"P">>, 5), Interval(<<"M">>, 7)>>

(* find('majb5'), a symbol of the row "major diminished fifth": nothing   *)
(* is found                                                                *)
C16_SymbolNotFound ==
  /\ FindDone
  /\ call.key = Str("majb5")
  /\ \E i \in DOMAIN CHORD_TYPE_DATABASE :
       /\ CHORD_TYPE_DATABASE[i].name = "major diminished fifth"
       /\ "majb5" \in Range(CHORD_TYPE_DATABASE[i].symbols)
  /\ IsNull(Found)

-----------------------------------------------------------------------------
QueryOps ==
  {"find", "findByIntervals", "findBySymbol", "findByName", "findByBinary", "search"}

(* C17: once the tree is built, a call of find, findByIntervals,          *)
(* findBySymbol, findByName, findByBinary, search or Chord.guess leaves   *)
(* the nodes of the trie (their set and, for each, intervals, name,       *)
(* symbols, omission and children) and the entries of the four maps as    *)
(* they were.  A node is the record of its fields, so the nodes are the   *)
(* same when the function from paths to nodes is.                          *)
C17_QueriesReadOnly ==
  [][(tree # NULL /\ call'.op \in QueryOps \cup {"guess"}) =>
       /\ tree' # NULL
       /\ DOMAIN tree'[1].nodes = DOMAIN tree[1].nodes
       /\ tree'[1].nodes = tree[1].nodes
       /\ tree'[1].intervalMap = tree[1].intervalMap
       /\ tree'[1].nameMap = tree[1].nameMap
       /\ tree'[1].symbolMap = tree[1].symbolMap
       /\ tree'[1].binaryMap = tree[1].binaryMap]_vars

(* a search that found nodes in the built tree, then a guess that found   *)
(* chords in it                                                            *)
C17_Witness ==
  /\ prev.call.op = "search"
  /\ ~prev.built
  /\ prev.result[1].value # <<>>
  /\ Returned
  /\ ~built
  /\ Results # <<>>
  /\ builds = 1

-----------------------------------------------------------------------------
(* pcset.ts: one call of transpose, prime or isZRelated on every input.   *)
(* A set is a sequence of at most MaxChromas distinct chromas, in any     *)
(* order; n runs over -MaxShift..MaxShift, more than an octave each way;  *)
(* the arrays given to isZRelated are the subsets of ZChromas, ascending. *)
MaxChromas == 3

MaxShift == 13

ChromaSeqs ==
  {s \in SeqsUpTo(0..11, MaxChromas) : \A i, j \in DOMAIN s : i # j => s[i] # s[j]}

Shifts == (-MaxShift)..MaxShift

ZChromas == {0, 1, 3, 4, 6, 7}

ZSets ==
  {s \in SeqsUpTo(ZChromas, Cardinality(ZChromas)) :
     \A i, j \in DOMAIN s : i < j => s[i] < s[j]}

InitPCSet ==
  /\ tree = NULL
  /\ builds = 0
  /\ observed = 0
  /\ \/ \E op \in {"transpose", "prime"}, s \in ChromaSeqs, n \in Shifts :
          call = [op |-> op, pcset |-> s, n |-> n]
     \/ \E a, b \in ZSets : call = [op |-> "isZRelated", a |-> a, b |-> b]
  /\ result = NULL
  /\ built = FALSE
  /\ prev = NoPrev

(* S.transpose(n), and that transposed by -n *)
Transpose ==
  /\ result = NULL
  /\ call.op = "transpose"
  /\ result' = Some([transposed |-> PCSetTranspose(call.pcset, call.n),
                     back |-> PCSetTranspose(PCSetTranspose(call.pcset, call.n), -call.n)])
  /\ UNCHANGED <<tree, builds, observed, call, built, prev>>

(* S.prime(), S.transpose(n).prime() and S.invert().prime() *)
Prime ==
  /\ result = NULL
  /\ call.op = "prime"
  /\ result' = Some([prime |-> PCSetPrime(call.pcset),
                     ofTransposed |-> PCSetPrime(PCSetTranspose(call.pcset, call.n)),
                     ofInverted |-> PCSetPrime(PCSetInvert(call.pcset))])
  /\ UNCHANGED <<tree, builds, observed, call, built, prev>>

(* PCSet.isZRelated(a, b) *)
IsZRelated ==
  /\ result = NULL
  /\ call.op = "isZRelated"
  /\ result' = Some([related |-> PCSetIsZRelated(call.a, call.b)])
  /\ UNCHANGED <<tree, builds, observed, call, built, prev>>

NextPCSet == Transpose \/ Prime \/ IsZRelated

SpecPCSet == InitPCSet /\ [][NextPCSet]_vars

(* C18: for every set S of distinct chromas and every n, the prime form   *)
(* of S.transpose(n) and the prime form of S.invert() are the prime form  *)
(* of S, member by member.                                                 *)
C18_PrimeOfClass ==
  (call.op = "prime" /\ result # NULL) =>
    /\ result[1].ofTransposed = result[1].prime
    /\ result[1].ofInverted = result[1].prime

(* the major triad C E G, two semitones up: both have the prime form of   *)
(* the minor triad                                                         *)
C18_Witness ==
  /\ call.op = "prime"
  /\ call.pcset = <<0, 4, 7>>
  /\ call.n = 2
  /\ result # NULL
  /\ result[1].prime = <<0, 3, 7>>
  /\ result[1].ofTransposed = <<0, 3, 7>>
  /\ PCSetPrime(<<2, 6, 9>>) = <<0, 3, 7>>

(* C19: for every set S of distinct chromas in 0..11 and every n,         *)
(* S.transpose(n) has as many members as S, all in 0..11, and             *)
(* S.transpose(n).transpose(-n) is S, in the same order.                   *)
C19_TransposeBack ==
  (call.op = "transpose" /\ result # NULL) =>
    /\ Len(result[1].transposed) = Len(call.pcset)
    /\ \A i \in DOMAIN result[1].transposed : result[1].transposed[i] \in 0..11
    /\ result[1].back = call.pcset

(* G C E down by more than an octave *)
C19_Witness ==
  /\ call.op = "transpose"
  /\ call.pcset = <<7, 0, 4>>
  /\ call.n = -13
  /\ result # NULL
  /\ result[1].transposed = <<6, 11, 3>>
  /\ result[1].back = <<7, 0, 4>>

(* C20: PCSet.isZRelated(a, b) is true exactly when a and b have the same *)
(* interval vector and different prime forms: true for [0,1,4,6] and      *)
(* [0,1,3,7], false for [0,4,7] and [0,3,6], false for a set and itself   *)
(* or one of its transpositions.                                           *)
C20_ZRelatedIff ==
  (call.op = "isZRelated" /\ result # NULL) =>
    (result[1].related
       <=> /\ PCSetIntervalVector(call.a) = PCSetIntervalVector(call.b)
           /\ PCSetPrime(call.a) # PCSetPrime(call.b))

(* the major triad and itself: same interval vector, same prime form,     *)
(* and isZRelated is true                                                  *)
C20_RelatedToItself ==
  /\ call.op = "isZRelated"
  /\ call.a = <<0, 4, 7>>
  /\ call.b = <<0, 4, 7>>
  /\ result # NULL
  /\ result[1].related
  /\ PCSetIntervalVector(call.a) = <<0, 0, 1, 1, 1, 0>>
  /\ PCSetPrime(call.a) = PCSetPrime(call.b)

-----------------------------------------------------------------------------
(* pitch-class.ts: one call of PitchClass.fromName on every name made of  *)
(* a letter and nothing, "n", or a run of at most MaxAccidentals "#", "b" *)
(* or "x"; and on names that the grammar refuses.                          *)
MaxAccidentals == 13

Run(c, k) == [i \in 1..k |-> c]

Accidentals ==
  {<<>>, <<"n">>} \cup {Run(c, k) : c \in {"#", "b", "x"}, k \in 1..MaxAccidentals}

RefusedNames == {<<"H">>, <<"C", "#", "b">>, <<"C", "n", "n">>, <<>>, <<"#">>}

InitNames ==
  /\ tree = NULL
  /\ builds = 0
  /\ observed = 0
  /\ \/ \E letter \in {"A", "B", "C", "D", "E", "F", "G", "a", "b", "c", "d", "e", "f", "g"},
          accidental \in Accidentals :
          call = [op |-> "fromName", name |-> <<letter>> \o accidental]
     \/ \E name \in RefusedNames : call = [op |-> "fromName", name |-> name]
  /\ result = NULL
  /\ built = FALSE
  /\ prev = NoPrev

(* PitchClass.fromName(name), and the chroma of what it returns *)
FromName ==
  /\ result = NULL
  /\ call.op = "fromName"
  /\ result' = Some(LET made == PitchClassFromName(call.name)
                    IN  IF made.ok
                        THEN Ok([pitchClass |-> made.value,
                                 chroma |-> PitchClassChroma(made.value)])
                        ELSE made)
  /\ UNCHANGED <<tree, builds, observed, call, built, prev>>

NextNames == FromName

SpecNames == InitNames /\ [][NextNames]_vars

(* C21: for every name that PitchClass.fromName accepts, the chroma of    *)
(* the pitch class is an integer in 0..11.                                 *)
C21_ChromaInRange ==
  (call.op = "fromName" /\ result # NULL /\ result[1].ok) =>
    result[1].value.chroma \in 0..11

(* C with thirteen flats is accepted and has the chroma -1 *)
C21_NegativeChroma ==
  /\ call.op = "fromName"
  /\ call.name = <<"C">> \o Run("b", 13)
  /\ result # NULL
  /\ result[1].ok
  /\ result[1].value.pitchClass.accidental = Some(Run("b", 13))
  /\ result[1].value.chroma = -1

-----------------------------------------------------------------------------
(* interval.ts: one call of Interval.fromSemitones on every n of          *)
(* -MaxSemitones..MaxSemitones, five octaves each way.                     *)
MaxSemitones == 60

InitIntervals ==
  /\ tree = NULL
  /\ builds = 0
  /\ observed = 0
  /\ \E n \in (-MaxSemitones)..MaxSemitones : call = [op |-> "fromSemitones", n |-> n]
  /\ result = NULL
  /\ built = FALSE
  /\ prev = NoPrev

(* Interval.fromSemitones(n), and the semitones of what it returns *)
FromSemitones ==
  /\ result = NULL
  /\ call.op = "fromSemitones"
  /\ result' = Some([interval |-> IntervalFromSemitones(call.n),
                     semitones |-> IntervalSemitones(IntervalFromSemitones(call.n))])
  /\ UNCHANGED <<tree, builds, observed, call, built, prev>>

NextIntervals == FromSemitones

SpecIntervals == InitIntervals /\ [][NextIntervals]_vars

(* C22: for every integer n, Interval.fromSemitones(n).semitones is n.    *)
C22_SemitonesBack ==
  (call.op = "fromSemitones" /\ result # NULL) => result[1].semitones = call.n

(* two octaves: fromSemitones(24) is P15, whose semitones are 12 *)
C22_TwoOctavesLost ==
  /\ call.op = "fromSemitones"
  /\ call.n = 24
  /\ result # NULL
  /\ result[1].interval = Interval(<<"P">>, 15)
  /\ IntervalOctaves(result[1].interval) = 1
  /\ result[1].semitones = 12

-----------------------------------------------------------------------------
(* pcset.ts with the instances told apart.  A heap is the sequence of the *)
(* PCSet instances made so far, each the array of its members; a          *)
(* reference is an index of the heap.  A method takes the heap and the    *)
(* receiver this and returns [heap, ref]: the heap it leaves and the      *)
(* reference it returns.  Arrays that are no PCSet (the results of        *)
(* toSorted, toReversed, rotate and the Set of create) are values.        *)

(* new PCSet() followed by push(...members) *)
Allocate(heap, members) == [heap |-> Append(heap, members), ref |-> Len(heap) + 1]

(* PCSet.create(arr) *)
create(heap, arr) == Allocate(heap, Unique(arr))

(* this.map(f) makes an instance of the class of this; then create *)
transpose(heap, this, n) ==
  LET transposed ==
        Allocate(heap, [i \in DOMAIN heap[this] |->
                          JsRem(JsRem(heap[this][i] + n, 12) + 12, 12)])
  IN  create(transposed.heap, transposed.heap[transposed.ref])

(* transpose(-this[0]); on the empty set there is no member to map *)
zero(heap, this) ==
  transpose(heap, this, IF heap[this] = <<>> THEN 0 ELSE -heap[this][1])

(* rotate(n, this) on the empty set slices at NaN and gives an empty array *)
rotateSet(heap, this, n) ==
  create(heap, IF heap[this] = <<>> THEN <<>> ELSE rotate(n, heap[this]))

invert(heap, this) ==
  LET inverted ==
        Allocate(heap, [i \in DOMAIN heap[this] |-> JsRem(12 - heap[this][i], 12)])
  IN  create(inverted.heap, inverted.heap[inverted.ref])

(* reverse with Array.prototype.reverse, in place, returning this *)
reverseInPlace(heap, this) ==
  [heap |-> [heap EXCEPT ![this] = [i \in DOMAIN @ |-> @[Len(@) + 1 - i]]],
   ref |-> this]

(* create(this.toReversed()) *)
reverse(heap, this) ==
  create(heap, [i \in DOMAIN heap[this] |-> heap[this][Len(heap[this]) + 1 - i]])

complement(heap, this) ==
  create(heap, SelectSeq([i \in 1..12 |-> i - 1], LAMBDA c : c \notin Range(heap[this])))

RECURSIVE reduceCompactRefs(_, _, _)
(* sets.reduce((acc, cur) => acc.binary < cur.binary ? acc : cur, acc) on *)
(* references                                                              *)
reduceCompactRefs(heap, acc, sets) ==
  IF sets = <<>> THEN acc
  ELSE reduceCompactRefs(heap,
                         IF PCSetBinary(heap[acc]) < PCSetBinary(heap[Head(sets)])
                         THEN acc ELSE Head(sets),
                         Tail(sets))

(* mostLeftCompact(sets): one of the sets, or a new empty one *)
mostLeftCompactRef(heap, sets) ==
  IF Len(sets) = 0 THEN Allocate(heap, <<>>)
  ELSE [heap |-> heap, ref |-> reduceCompactRefs(heap, sets[1], sets)]

RECURSIVE normalRotations(_, _, _, _)
(* the loop of normal(): rotations holds the references pushed so far *)
normalRotations(heap, sorted, i, rotations) ==
  IF i >= Len(sorted) THEN [heap |-> heap, rotations |-> rotations]
  ELSE LET rotated == create(heap, rotate(i, sorted))
           zeroed == zero(rotated.heap, rotated.ref)
       IN  normalRotations(zeroed.heap, sorted, i + 1, Append(rotations, zeroed.ref))

normal(heap, this) ==
  LET looped == normalRotations(heap, toSorted(heap[this]), 0, <<>>)
  IN  mostLeftCompactRef(looped.heap, looped.rotations)

prime(heap, this) ==
  LET ofOriginal == normal(heap, this)
      originalReduced == zero(ofOriginal.heap, ofOriginal.ref)
      inverted == invert(originalReduced.heap, this)
      ofInverted == normal(inverted.heap, inverted.ref)
      invertedReduced == zero(ofInverted.heap, ofInverted.ref)
  IN  mostLeftCompactRef(invertedReduced.heap,
                         <<originalReduced.ref, invertedReduced.ref>>)

(* One call of each transformation on every set: the call holds the heap  *)
(* before, whose only instance is the receiver, the result the heap after *)
(* and the reference returned.                                             *)
ReceiverShifts == {-MaxShift, -1, 0, 2, MaxShift}

MethodCall(op, s, n) == [op |-> op, heap |-> <<s>>, this |-> 1, n |-> n]

InitReceiver ==
  /\ tree = NULL
  /\ builds = 0
  /\ observed = 0
  /\ \/ \E op \in {"transpose", "rotate"}, s \in ChromaSeqs, n \in ReceiverShifts :
          call = MethodCall(op, s, n)
     \/ \E op \in {"zero", "invert", "reverse", "complement", "normal", "prime"},
          s \in ChromaSeqs :
          call = MethodCall(op, s, 0)
  /\ result = NULL
  /\ built = FALSE
  /\ prev = NoPrev

Method(op, done) ==
  /\ result = NULL
  /\ call.op = op
  /\ result' = Some(done)
  /\ UNCHANGED <<tree, builds, observed, call, built, prev>>

TransposeMethod == Method("transpose", transpose(call.heap, call.this, call.n))

ZeroMethod == Method("zero", zero(call.heap, call.this))

RotateMethod == Method("rotate", rotateSet(call.heap, call.this, call.n))

InvertMethod == Method("invert", invert(call.heap, call.this))

ReverseMethod == Method("reverse", reverse(call.heap, call.this))

ComplementMethod == Method("complement", complement(call.heap, call.this))

NormalMethod == Method("normal", normal(call.heap, call.this))

PrimeMethod == Method("prime", prime(call.heap, call.this))

NextReceiver ==
  \/ TransposeMethod
  \/ ZeroMethod
  \/ RotateMethod
  \/ InvertMethod
  \/ ReverseMethod
  \/ ComplementMethod
  \/ NormalMethod
  \/ PrimeMethod

SpecReceiver == InitReceiver /\ [][NextReceiver]_vars

MethodDone ==
  /\ call.op \in {"transpose", "zero", "rotate", "invert", "reverse", "complement",
                  "normal", "prime"}
  /\ DOMAIN call = {"op", "heap", "this", "n"}
  /\ result # NULL

(* C23: after transpose, zero, rotate, invert, reverse, complement,       *)
(* normal or prime on a set S, S has the members it had, in the same      *)
(* order, and what is returned is an instance made by the call, not S.    *)
C23_ReceiverKept ==
  MethodDone =>
    /\ result[1].heap[call.this] = call.heap[call.this]
    /\ result[1].ref # call.this
    /\ result[1].ref \in DOMAIN result[1].heap \ DOMAIN call.heap

(* normal() of G C E: the receiver is still G C E and the instance        *)
(* returned, one of several made by the call, holds 0 4 7                  *)
C23_Witness ==
  /\ MethodDone
  /\ call.op = "normal"
  /\ call.heap = << <<7, 0, 4>> >>
  /\ result[1].heap[1] = <<7, 0, 4>>
  /\ result[1].heap[result[1].ref] = <<0, 4, 7>>
  /\ Len(result[1].heap) > 2
  /\ result[1].heap[result[1].ref] = PCSetNormal(<<7, 0, 4>>)

-----------------------------------------------------------------------------
(* One lookup, by its semitone signature, of every combination of every   *)
(* row of the database: row and k tell which combination the key was      *)
(* taken from.                                                             *)
Tokens(row, optional) ==
  LET chosen == SelectSeq(row.intervals, LAMBDA t : t.optional = optional)
  IN  [j \in DOMAIN chosen |-> Interval(chosen[j].quality, chosen[j].number)]

Signature(intervals) ==
  LET sorted == SortBySemitones(intervals)
  IN  Join([j \in DOMAIN sorted |-> IntervalSemitones(sorted[j])])

InitCombinations ==
  /\ \/ tree = NULL /\ builds = 0 /\ observed = 0
     \/ tree = Some(DatabaseTree) /\ builds = 1 /\ observed = 1
  /\ \E i \in DOMAIN CHORD_TYPE_DATABASE :
       \E k \in DOMAIN generateCombinations(CHORD_TYPE_DATABASE[i].intervals) :
         call = [op |-> "findByIntervals",
                 key |-> Str(Signature(generateCombinations(
                                         CHORD_TYPE_DATABASE[i].intervals)[k].intervals)),
                 allowOmissions |-> TRUE,
                 row |-> i,
                 k |-> k]
  /\ result = NULL
  /\ built = FALSE
  /\ prev = NoPrev

FindByIntervalsPending ==
  /\ result = NULL
  /\ call.op = "findByIntervals"
  /\ Return(LET used == useTree(Mod)
            IN  [mod |-> used,
                 out |-> Ok(findByIntervals(used.tree[1], call.key.string,
                                            call.allowOmissions))])
  /\ UNCHANGED <<call, prev>>

NextCombinations == FindByIntervalsPending

SpecCombinations == InitCombinations /\ [][NextCombinations]_vars

CombinationDone ==
  /\ call.op = "findByIntervals"
  /\ "row" \in DOMAIN call
  /\ result # NULL

(* C24: a row with k optional tokens has exactly 2^k combinations, one    *)
(* for each subset of the optional tokens, with the mandatory and the     *)
(* chosen tokens as intervals and the others as omit; and the lookup of   *)
(* the signature of each returns a node with the name and the symbols of  *)
(* the row and the tokens left out as omission, null when none is.        *)
C24_EveryCombinationRegistered ==
  CombinationDone =>
    LET row == CHORD_TYPE_DATABASE[call.row]
        combinations == generateCombinations(row.intervals)
        mandatory == Range(Tokens(row, FALSE))
        optional == Range(Tokens(row, TRUE))
        combination == combinations[call.k]
    IN  /\ Len(combinations) = 2 ^ Len(Tokens(row, TRUE))
        /\ {Range(combinations[j].omit) : j \in DOMAIN combinations} = SUBSET optional
        /\ \A j \in DOMAIN combinations :
             /\ Range(combinations[j].intervals)
                  = mandatory \cup (optional \ Range(combinations[j].omit))
             /\ Len(combinations[j].intervals) + Len(combinations[j].omit)
                  = Len(row.intervals)
        /\ ~IsNull(Found)
        /\ FoundNode.name = Some(row.name)
        /\ FoundNode.symbols = row.symbols
        /\ IF combination.omit = <<>>
           THEN IsNull(FoundNode.omission)
           ELSE /\ ~IsNull(FoundNode.omission)
                /\ Range(FoundNode.omission[1]) = Range(combination.omit)
                /\ Len(FoundNode.omission[1]) = Len(combination.omit)

(* the lookup of 0,4,6, the signature of the only combination of          *)
(* "1P 3M 5d", returns nothing                                             *)
C24_RowNotRegistered ==
  /\ CombinationDone
  /\ CHORD_TYPE_DATABASE[call.row].name = "major diminished fifth"
  /\ call.key.string = "0,4,6"
  /\ IsNull(Found)

-----------------------------------------------------------------------------
(* the path of edge keys that buildTree walks for a combination *)
CombinationPath(intervals) ==
  LET sorted == SortBySemitones(intervals)
  IN  [j \in DOMAIN sorted |-> IntervalSemitones(sorted[j])]

CombinationOf(i, k) == generateCombinations(CHORD_TYPE_DATABASE[i].intervals)[k]

(* no combination that buildTree walks after combination k of row i ends  *)
(* at the same node                                                        *)
LastAtNode(i, k) ==
  \A i2 \in DOMAIN CHORD_TYPE_DATABASE :
    \A k2 \in DOMAIN generateCombinations(CHORD_TYPE_DATABASE[i2].intervals) :
      (i2 > i \/ (i2 = i /\ k2 > k)) =>
        CombinationPath(CombinationOf(i2, k2).intervals)
          # CombinationPath(CombinationOf(i, k).intervals)

(* C25: after construction the node at which a combination of a row ends  *)
(* is no intermediate node any more, it has a name and symbols; when the  *)
(* combination is the last to end there the node carries the name and     *)
(* the symbols of its row and is what the signature map returns for the   *)
(* combination, the name map returns a node of that name, the binary map  *)
(* has the binary of the node, and the symbol map returns for each symbol *)
(* of the row a node that has the symbol.                                  *)
C25_TerminalNodeNamed ==
  CombinationDone =>
    LET row == CHORD_TYPE_DATABASE[call.row]
        path == CombinationPath(CombinationOf(call.row, call.k).intervals)
        t == tree[1]
        node == t.nodes[path]
    IN  /\ ~IsNull(node.name)
        /\ node.symbols # <<>>
        /\ LastAtNode(call.row, call.k) =>
             /\ node.name = Some(row.name)
             /\ node.symbols = row.symbols
             /\ MapGet(t.intervalMap, Join(path)) = Some(path)
             /\ ~IsNull(findByName(t, row.name))
             /\ t.nodes[findByName(t, row.name)[1]].name = Some(row.name)
             /\ ~IsNull(findByBinary(t, NodeBinary(node)))
             /\ \A j \in DOMAIN row.symbols :
                  /\ ~IsNull(findBySymbol(t, row.symbols[j]))
                  /\ row.symbols[j]
                       \in Range(t.nodes[findBySymbol(t, row.symbols[j])[1]].symbols)

(* the node 0,4,6, made on the way to 0,4,6,7 for "1P 3M 4A 5P", still    *)
(* has no name and no symbols after the only combination of "1P 3M 5d"    *)
(* ended at it, and the name of that row is in no map                      *)
C25_StillIntermediate ==
  /\ CombinationDone
  /\ CHORD_TYPE_DATABASE[call.row].name = "major diminished fifth"
  /\ CombinationPath(CombinationOf(call.row, call.k).intervals) = <<0, 4, 6>>
  /\ IsNull(tree[1].nodes[<<0, 4, 6>>].name)
  /\ tree[1].nodes[<<0, 4, 6>>].symbols = <<>>
  /\ tree[1].nodes[<<0, 4, 6, 7>>].name = Some("major added flat fifth")
  /\ IsNull(findByName(tree[1], "major diminished fifth"))

-----------------------------------------------------------------------------
(* the nodes that can be reached from the root through children maps *)
Reachable(t, path) ==
  \A d \in 1..Len(path) :
    /\ SubSeq(path, 1, d - 1) \in DOMAIN t.nodes
    /\ path[d] \in Range(t.nodes[SubSeq(path, 1, d - 1)].children)

(* C26: after construction the interval list of every node that can be    *)
(* reached from the root is in ascending order of semitones from the      *)
(* root, is as long as the node is deep, and is the list that the edge    *)
(* keys on the path from the root give; and no node has two children      *)
(* under one edge key.                                                     *)
C26_NodesFollowPaths ==
  tree # NULL =>
    \A path \in DOMAIN tree[1].nodes :
      Reachable(tree[1], path) =>
        LET node == tree[1].nodes[path]
        IN  /\ \A a, b \in DOMAIN node.intervals :
                 a < b => IntervalSemitones(node.intervals[a])
                            <= IntervalSemitones(node.intervals[b])
            /\ Len(node.intervals) = Len(path)
            /\ [j \in DOMAIN node.intervals |-> IntervalSemitones(node.intervals[j])]
                 = path
            /\ \A a, b \in DOMAIN node.children :
                 node.children[a] = node.children[b] => a = b
            /\ \A a \in DOMAIN node.children :
                 Append(path, node.children[a]) \in DOMAIN tree[1].nodes

(* the tree is built, every node of it can be reached, and the node of    *)
(* P1 M3 is shared: the major triad and the dominant seventh both go      *)
(* through it                                                              *)
C26_Witness ==
  /\ CombinationDone
  /\ \A path \in DOMAIN tree[1].nodes : Reachable(tree[1], path)
  /\ tree[1].nodes[<<0, 4>>].intervals = <<Interval(<<"P">>, 1), Interval(<<"M">>, 3)>>
  /\ tree[1].nodes[<<0, 4, 7>>].name = Some("major")
  /\ tree[1].nodes[<<0, 4, 7, 10>>].name = Some("dominant seventh")
  /\ Len(tree[1].nodes[<<0, 4>>].children) > 1

-----------------------------------------------------------------------------
(* semitones from the root of the last interval of the node at path, 0    *)
(* for the root node, which has no interval                                *)
LastSemitones(t, path) ==
  IF t.nodes[path].intervals = <<>> THEN 0
  ELSE IntervalSemitones(t.nodes[path].intervals[Len(t.nodes[path].intervals)])

(* C27: the key of every edge of the trie, the intervalToNext of the      *)
(* child, under which its parent holds it, is the number of semitones     *)
(* from the last interval of the parent to the last interval of the       *)
(* child.                                                                  *)
C27_KeyFromParent ==
  tree # NULL =>
    \A path \in DOMAIN tree[1].nodes :
      path # RootPath =>
        LET parent == SubSeq(path, 1, Len(path) - 1)
        IN  /\ path[Len(path)] = tree[1].nodes[path].intervalToNext
            /\ tree[1].nodes[path].intervalToNext
                 = LastSemitones(tree[1], path) - LastSemitones(tree[1], parent)

(* the major triad hangs under the key 7, the semitones of P5 from the    *)
(* root, from the node of P1 M3, whose last interval is 4 semitones from  *)
(* the root                                                                *)
C27_KeyFromRoot ==
  /\ CombinationDone
  /\ tree[1].nodes[<<0, 4, 7>>].name = Some("major")
  /\ tree[1].nodes[<<0, 4, 7>>].intervalToNext = 7
  /\ 7 \in Range(tree[1].nodes[<<0, 4>>].children)
  /\ LastSemitones(tree[1], <<0, 4, 7>>) = 7
  /\ LastSemitones(tree[1], <<0, 4>>) = 4

-----------------------------------------------------------------------------
(* what ChordType.find returns for the chromas of a rotation *)
TypeOfRotation(rotation) ==
  find(tree[1], Num(PCSetBinary(PCSetZero(PCSetCreate(rotation)))), TRUE)

(* a result for the rotation of the notes without the bass, when the      *)
(* options let it through                                                  *)
Probed(chromas, options, rotation) ==
  LET type == TypeOfRotation(rotation)
  IN  ( /\ ~IsNull(type)
        /\ WithDefault(options.allowSlash, TRUE)
        /\ \/ WithDefault(options.allowOmissions, TRUE)
           \/ IsNull(tree[1].nodes[type[1]].omission) )
      => \E k \in DOMAIN Results :
           /\ Results[k].chord.type = type[1]
           /\ RootChroma(Results[k]) = rotation[1]
           /\ BassChroma(Results[k]) = chromas[1]

(* C28: results of the rotations without the bass only for more *)
(* than 3 distinct chromas; for 1 to 3 every result has an inversion that *)
(* is not null, and for 1 or 2 the first note as root; for more than 3    *)
(* every rotation of the notes after the first is probed and every result *)
(* found there has a root that is not the bass and a null inversion.      *)
C28_SecondPassAboveThree ==
  Returned =>
    LET chromas == Chromas(call.noteArr)
        n == Len(chromas)
    IN  /\ (\E k \in DOMAIN Results : Results[k].pass = 2) => n > 3
        /\ n \in 1..3 =>
             \A k \in DOMAIN Results : ~IsNull(ChordInversion(tree[1], Results[k].chord))
        /\ n \in 1..2 =>
             \A k \in DOMAIN Results : RootChroma(Results[k]) = chromas[1]
        /\ n > 3 =>
             /\ \A k \in DOMAIN Results :
                  Results[k].pass = 2 =>
                    /\ RootChroma(Results[k]) # BassChroma(Results[k])
                    /\ IsNull(ChordInversion(tree[1], Results[k].chord))
             /\ \A j \in 1..(n - 1) :
                  Probed(chromas, call.options, generateRotations(Tail(chromas))[j])

(* four notes, D C E G: C major is found in the rotations without the     *)
(* bass D, which is no tone of it                                          *)
C28_Witness ==
  /\ Returned
  /\ Len(Chromas(call.noteArr)) = 4
  /\ Chromas(call.noteArr)[1] = 2
  /\ \E k \in DOMAIN Results :
       /\ Results[k].pass = 2
       /\ TypeOf(Results[k]).name = Some("major")
       /\ RootChroma(Results[k]) = 0
       /\ BassChroma(Results[k]) = 2
       /\ IsNull(ChordInversion(tree[1], Results[k].chord))


-----------------------------------------------------------------------------
(* One call of ChordType.find, with and without omissions allowed, on     *)
(* every key of the four maps of the tree: the signatures, the names, the *)
(* symbols and the binaries; and on a string and a number that are no     *)
(* key.                                                                    *)
StringKeys ==
  DOMAIN DatabaseTree.intervalMap \cup DOMAIN DatabaseTree.nameMap
    \cup DOMAIN DatabaseTree.symbolMap \cup {"nope"}

NumberKeys == DOMAIN DatabaseTree.binaryMap \cup {0}

InitKeys ==
  /\ \/ tree = NULL /\ builds = 0 /\ observed = 0
     \/ tree = Some(DatabaseTree) /\ builds = 1 /\ observed = 1
  /\ \E allowOmissions \in BOOLEAN :
       \/ \E s \in StringKeys : call = FindCall(Str(s), allowOmissions)
       \/ \E n \in NumberKeys : call = FindCall(Num(n), allowOmissions)
  /\ result = NULL
  /\ built = FALSE
  /\ prev = NoPrev

SpecKeys == InitKeys /\ [][NextFind]_vars

(* the node registered under the signature String(key), null if none *)
BySignature(key) == MapGet(tree[1].intervalMap, String(key))

-----------------------------------------------------------------------------
(* C30: the tones of every chord that Chord.guess returns, the pitch-     *)
(* class set of its type transposed to its root, are as a set the         *)
(* distinct chromas of the notes given, or these without the chroma of    *)
(* the first note; and no two results are equal under Chord.equalTo.      *)
C30_SoundingPitchesKept ==
  Returned =>
    LET chromas == Chromas(call.noteArr)
    IN  /\ \A k \in DOMAIN Results :
             \/ Tones(Results[k]) = Range(chromas)
             \/ Tones(Results[k]) = Range(chromas) \ {chromas[1]}
        /\ \A j, k \in DOMAIN Results :
             j # k => ~equalTo(Results[j].chord, Results[k].chord)

(* C E4 G(67) B3: C major seventh with all four chromas, and E minor over *)
(* C with the three above the first note                                   *)
C30_Witness ==
  /\ Returned
  /\ Chromas(call.noteArr) = <<0, 4, 7, 11>>
  /\ Len(Results) >= 2
  /\ \E j, k \in DOMAIN Results :
       /\ Tones(Results[j]) = {0, 4, 7, 11}
       /\ RootChroma(Results[j]) = 0
       /\ Tones(Results[k]) = {4, 7, 11}
       /\ RootChroma(Results[k]) = 4
       /\ BassChroma(Results[k]) = 0
=============================================================================
